---- MODULE Spec2Model ----
(***************************************************************************)
(* Focal-Reader: the EPUB structure-recovery pipeline.                     *)
(*                                                                         *)
(* Two copies of _get_epub_chapter_groups exist in the repository:         *)
(* EpubHandler's (src/epub_handler.py) and MainWindow's                    *)
(* (src/main_window.py).  Both are modelled; the variable impl says which  *)
(* one a run executes.  EpubHandler._group_images is modelled as the       *)
(* function it is, applied to inputs of the shape its caller builds.       *)
(*                                                                         *)
(* A spine document is the integer of its position in all_document_hrefs   *)
(* (1 = first), so list.sort(key=all_document_hrefs.index) is a sort by    *)
(* value.  The text of a document is abstracted to the two tests the code  *)
(* makes of it: "empty" (get_text().strip() is empty), "junk" (non-empty   *)
(* and holding a skip keyword), "clean" (non-empty, no skip keyword).      *)
(***************************************************************************)
EXTENDS Integers, Sequences, FiniteSets, TLC

\* ---------------------------------------------------------------- bounds

\* Number of spine documents of the book.
NumDocs == 6

\* Number of spine documents of the book handed to process_epub.
NumBookDocs == 3

\* Most essential hrefs the table of contents yields.
MaxEssential == 2

\* Number of documents in the all_docs_in_order handed to _group_images.
NumImgDocs == 4

\* Most images one non-text document holds.
MaxImages == 2

\* Number of non-text documents handed to
\* _extract_images_from_non_text_files.
NumExtractDocs == 2

\* Most img tags one non-text document holds.
MaxTags == 2

\* Number of documents of the book handed to _process_epub_chapters.
NumChapterDocs == 3

\* Highest page number among the TOC page candidates.
MaxTocPage == 6

\* Most entries of the candidate list handed to _detect_pdf_start_page.
MaxCandidates == 4

\* Tallest page, in units of y_pos.
MaxPageHeight == 10

\* Longest text block of a PDF, in characters.
MaxTextLen == 4

\* Most footer texts the user reports for one document.
MaxUserPatterns == 1

\* Longest text handed to a text processor, in characters.
MaxRawLen == 5

\* Number of different texts handed to TTSHandler.play.
NumTexts == 2

\* Most calls of TTSHandler.play that start a worker.
MaxPlays == 3

\* Highest page the TOC parser returns as the first page of a PDF.
MaxStartPage == 1

\* Most signals posted to the main window and not yet delivered.
MaxWindowEvents == 1
MaxSentences == 2

\* ------------------------------------------------------ program constants

JUNK_CHECK_LIMIT == 5

\* len(block_text) < 100 in _should_skip_block.
FOOTER_TEXT_LIMIT == 100

\* len("chapter"), the shortest of chapter_keywords.
SHORTEST_KEYWORD == 7

\* ------------------------------------------------------------- the book

Docs == 1..NumDocs

\* An href the TOC names that is no document of the spine.
Ghost == 0

Kinds == {"empty", "junk", "clean"}

Impls == {"EpubHandler", "MainWindow"}

all_document_hrefs == [i \in 1..NumDocs |-> i]

EssentialSets == {E \in SUBSET (Docs \cup {Ghost}) : Cardinality(E) <= MaxEssential}

\* ------------------------------------------------------- list helpers

Range(s) == {s[i] : i \in DOMAIN s}

Last(s) == s[Len(s)]

Front(s) == SubSeq(s, 1, Len(s) - 1)

RECURSIVE Flatten(_)
Flatten(ss) == IF ss = <<>> THEN <<>> ELSE Head(ss) \o Flatten(Tail(ss))

IsDuplicateFree(s) == \A i, j \in DOMAIN s : i # j => s[i] # s[j]

IsAscending(s) == \A i, j \in DOMAIN s : i < j => s[i] < s[j]

\* ------------------------------------------------------------ the state

VARIABLES
    impl,                 \* which copy of _get_epub_chapter_groups runs
    text_kind,            \* document -> what its extracted text is
    essential,            \* essential_files_from_toc
    pc,                   \* position in _get_epub_chapter_groups
    kept_files,
    discarded_files,
    non_text,             \* non_text_docs_map keys / non_text_files, in order
    documents_checked_count,
    restored,             \* rollback iterations done (history)
    final_content_files,
    final_chapter_groups,
    chapter_groups,       \* _group_images: its three arguments ...
    image_map,
    all_docs_in_order,
    grouped,              \* ... and the dictionary it returns
    non_text_docs_map,    \* _extract_images_from_non_text_files: its argument
    image_counter,        \* ... and its running image number
    toc_data,             \* _process_epub_chapters: argument (with the two above)
    unit_content,         \* ... what the book holds for each href
    html_body_parts,      \* ... and what it builds
    plain_text_parts,
    ui_toc,
    pdf_impl,             \* which copy of the PDF helpers runs
    candidates,           \* _detect_pdf_start_page: its argument
    toc_pages,            \* ... self.toc_pages
    start_page,           \* ... and the value it returns
    block,                \* _should_skip_block: its arguments
    skip_result,          \* ... and the value it returns
    footer_patterns,      \* self.footer_patterns
    block_text,           \* the text block of the open PDF
    cleaned,              \* _clean_text_of_footers(block_text), latest call
    recleaned,            \* _clean_text_of_footers applied to its own result
    processed_content,    \* the content the text area and the arrays show
    before_add,           \* the state add_and_reprocess_footer found (history)
    reprocess_error,      \* the error box of reprocess_current_file is up
    text_path,            \* which text processor runs: "pdf" or "epub"
    raw_text,             \* its argument
    doc_blocks,           \* the blocks of the text area's document
    sentences,
    sentence_spans,
    paragraph_sentence_map,
    tts_credentials,      \* TTSHandler: azure_key and azure_region are set
    is_playing,
    tts_thread,           \* self.thread and the worker that runs in it
    worker_text,          \* the text self.worker synthesises
    tts_events,           \* signals posted to the handler's thread
    tts_player,           \* the text whose audio self.player plays, or 0
    play_calls,           \* calls of play() that started a worker (history)
    last_play_text,       \* the text of the latest of them (history)
    stopped_since_play,   \* stop() returned and no play() since (history)
    audios_started,       \* calls of player.play() (history)
    finished_emitted,     \* playback_finished emitted for EndOfMedia (history)
    premature_end,        \* a player.stop() provoked EndOfMedia (history)
    stop_emitted,         \* ... and playback_finished was emitted for it
    azure_set,            \* MainWindow: azure_key and azure_region are set
    playback_state,
    current_sentence_index,
    current_file_path,    \* the file chosen last, NoFile for None
    current_start_page,   \* NoPage for None
    toc_destinations,     \* the file whose TOC it holds, NoFile if unset
    emergency_enabled,    \* emergency_button.isEnabled()
    synth,                \* the sentence self.worker synthesises, or -1
    orphans,              \* sentences of workers of replaced threads, in run()
    window_events,        \* signals posted to the main thread
    window_player,        \* the sentence whose audio self.player plays, or -1
    played,               \* audios started since play_tts set PLAYING (history)
    play_start,           \* current_sentence_index at that moment (history)
    quiet,                \* nothing but completed syntheses and playbacks since
    uncaught,             \* handler that raised since the last open_file
    empty_loaded,         \* the last load that went through left no sentence
    tokenized_empty,      \* span_tokenize was called on the empty string
    open_failed,          \* the last open_file call raised in its try
    before_open,          \* what that call found (history)
    error_boxes,          \* message boxes it showed
    last_handler,         \* the handler that ran last, where a claim asks
    page_before           \* current_start_page when it started

vars == <<impl, text_kind, essential, pc, kept_files, discarded_files, non_text,
          documents_checked_count, restored, final_content_files,
          final_chapter_groups, chapter_groups, image_map, all_docs_in_order,
          grouped, non_text_docs_map, image_counter, toc_data, unit_content,
          html_body_parts, plain_text_parts, ui_toc, pdf_impl, candidates,
          toc_pages, start_page, block, skip_result, footer_patterns,
          block_text, cleaned, recleaned, processed_content, before_add,
          reprocess_error, text_path, raw_text, doc_blocks, sentences,
          sentence_spans, paragraph_sentence_map, tts_credentials, is_playing,
          tts_thread, worker_text, tts_events, tts_player, play_calls,
          last_play_text, stopped_since_play, audios_started,
          finished_emitted, premature_end, stop_emitted, azure_set,
          playback_state, current_sentence_index, current_file_path,
          current_start_page, toc_destinations, emergency_enabled, synth,
          orphans, window_events, window_player, played, play_start, quiet,
          uncaught, empty_loaded, tokenized_empty, open_failed, before_open,
          error_boxes, last_handler, page_before>>

groupVars == <<final_content_files, final_chapter_groups>>

imageVars == <<chapter_groups, image_map, all_docs_in_order, grouped>>

classifierVars == <<impl, text_kind, essential, kept_files, discarded_files,
                    non_text, documents_checked_count, restored>>

extractVars == <<non_text_docs_map, image_counter>>

chapterVars == <<toc_data, unit_content, html_body_parts, plain_text_parts,
                 ui_toc>>

ExtractIdle == non_text_docs_map = <<>> /\ image_counter = 0

pdfVars == <<pdf_impl, candidates, toc_pages, start_page, block, skip_result>>

\* block when _should_skip_block is not the call under study.
NoBlock == [length |-> 0, keyword |-> "none", digit |-> FALSE,
            y_pos |-> 0, page_height |-> 1]

PdfIdle ==
    /\ pdf_impl = "PDFHandler"
    /\ candidates = <<>>
    /\ toc_pages = <<>>
    /\ start_page = 0
    /\ block = NoBlock
    /\ skip_result = "None"

footerVars == <<footer_patterns, block_text, cleaned, recleaned,
                processed_content, before_add, reprocess_error>>

\* before_add while add_and_reprocess_footer has not run.
NotAdded == [added |-> FALSE, patterns |-> <<>>, cleaned |-> <<>>,
             processed |-> <<>>, footer_text |-> <<>>]

FooterIdle ==
    /\ footer_patterns = <<>>
    /\ block_text = <<>>
    /\ cleaned = <<>>
    /\ recleaned = <<>>
    /\ processed_content = <<>>
    /\ before_add = NotAdded
    /\ reprocess_error = FALSE

textVars == <<text_path, raw_text, doc_blocks, sentences, sentence_spans,
              paragraph_sentence_map>>

\* An empty document has one empty block.
EmptyDocument == << <<>> >>

TextIdle ==
    /\ text_path = "pdf"
    /\ raw_text = <<>>
    /\ doc_blocks = EmptyDocument
    /\ sentences = <<>>
    /\ sentence_spans = <<>>
    /\ paragraph_sentence_map = <<>>

ChaptersIdle ==
    /\ toc_data = <<>>
    /\ unit_content = <<>>
    /\ html_body_parts = <<>>
    /\ plain_text_parts = <<>>
    /\ ui_toc = <<>>

ttsVars == <<tts_credentials, is_playing, tts_thread, worker_text, tts_events,
            tts_player, play_calls, last_play_text, stopped_since_play,
            audios_started, finished_emitted, premature_end, stop_emitted>>

\* A TTSHandler as __init__ leaves it, with credentials set or not.
TtsIdle ==
    /\ tts_credentials = FALSE
    /\ is_playing = FALSE
    /\ tts_thread = "not_running"
    /\ worker_text = 0
    /\ tts_events = <<>>
    /\ tts_player = 0
    /\ play_calls = 0
    /\ last_play_text = 0
    /\ stopped_since_play = FALSE
    /\ audios_started = 0
    /\ finished_emitted = 0
    /\ premature_end = FALSE
    /\ stop_emitted = FALSE

windowVars == <<azure_set, playback_state, current_sentence_index,
               current_file_path, current_start_page, toc_destinations,
               emergency_enabled, synth, orphans, window_events, window_player,
               played, play_start, quiet, uncaught, empty_loaded,
               tokenized_empty, open_failed, before_open, error_boxes,
               last_handler, page_before>>

\* self.current_file_path = None
NoFile == [kind |-> "none", content |-> <<>>, first_page |-> 0]

\* self.current_start_page = None
NoPage == -1

\* before_open while open_file has not run.
NotOpened == [text |-> << <<>> >>, sentences |-> <<>>, sentence_spans |-> <<>>,
              paragraph_sentence_map |-> <<>>, current_file_path |-> NoFile,
              current_start_page |-> NoPage, toc_destinations |-> NoFile]

\* A MainWindow as __init__ leaves it.
WindowFresh ==
    /\ playback_state = "STOPPED"
    /\ current_sentence_index = 0
    /\ current_file_path = NoFile
    /\ current_start_page = NoPage
    /\ toc_destinations = NoFile
    /\ emergency_enabled = FALSE
    /\ synth = -1
    /\ orphans = {}
    /\ window_events = <<>>
    /\ window_player = -1
    /\ played = <<>>
    /\ play_start = 0
    /\ quiet = FALSE
    /\ uncaught = "none"
    /\ empty_loaded = FALSE
    /\ tokenized_empty = FALSE
    /\ open_failed = FALSE
    /\ before_open = NotOpened
    /\ error_boxes = 0
    /\ last_handler = "none"
    /\ page_before = NoPage

WindowIdle == azure_set = FALSE /\ WindowFresh

\* The state of the objects that speak and show the text.
uiVars == <<ttsVars, windowVars>>

UiIdle == TtsIdle /\ WindowIdle

\* The variables of the handlers that _get_epub_chapter_groups and
\* _group_images never touch.
handlerVars == <<extractVars, chapterVars, pdfVars, footerVars, textVars>>

HandlersIdle ==
    ExtractIdle /\ ChaptersIdle /\ PdfIdle /\ FooterIdle /\ TextIdle

\* ------------------------------------------------------------ classifier

\* The junk test of one text-bearing document.
IsJunk(kind) == kind = "junk"

\* Mutant: documents_checked_count is incremented in the junk branch only.
ClassifyOneCountsJunkOnly(im, kind, d, st) ==
    IF kind = "empty"
    THEN [st EXCEPT !.non_text = Append(@, d),
                    !.kept = IF im = "EpubHandler" THEN Append(@, d) ELSE @]
    ELSE IF st.checked < JUNK_CHECK_LIMIT
    THEN IF IsJunk(kind)
         THEN [st EXCEPT !.checked = @ + 1, !.discarded = Append(@, d)]
         ELSE [st EXCEPT !.kept = Append(@, d)]
    ELSE [st EXCEPT !.kept = Append(@, d)]

\* Mutant: MainWindow's "continue" is missing, so an empty-text unit goes on
\* to the junk check, where it holds no keyword, is counted and kept.
ClassifyOneNoContinue(im, kind, d, st) ==
    IF kind = "empty"
    THEN IF st.checked < JUNK_CHECK_LIMIT
         THEN [st EXCEPT !.non_text = Append(@, d), !.kept = Append(@, d),
                         !.checked = IF im = "EpubHandler" THEN @ ELSE @ + 1]
         ELSE [st EXCEPT !.non_text = Append(@, d), !.kept = Append(@, d)]
    ELSE IF st.checked < JUNK_CHECK_LIMIT
    THEN IF IsJunk(kind)
         THEN [st EXCEPT !.checked = @ + 1, !.discarded = Append(@, d)]
         ELSE [st EXCEPT !.checked = @ + 1, !.kept = Append(@, d)]
    ELSE [st EXCEPT !.kept = Append(@, d)]

\* Mutant: an empty-text unit is recorded as non-text and not kept.
ClassifyOneEmptyNotKept(im, kind, d, st) ==
    IF kind = "empty"
    THEN [st EXCEPT !.non_text = Append(@, d)]
    ELSE IF st.checked < JUNK_CHECK_LIMIT
    THEN IF IsJunk(kind)
         THEN [st EXCEPT !.checked = @ + 1, !.discarded = Append(@, d)]
         ELSE [st EXCEPT !.checked = @ + 1, !.kept = Append(@, d)]
    ELSE [st EXCEPT !.kept = Append(@, d)]

\* One iteration of the loop over all_document_hrefs.
ClassifyOne(im, kind, d, st) ==
    IF kind = "empty"
    THEN [st EXCEPT !.non_text = Append(@, d),
                    !.kept = IF im = "EpubHandler" THEN Append(@, d) ELSE @]
    ELSE IF st.checked < JUNK_CHECK_LIMIT
    THEN IF IsJunk(kind)
         THEN [st EXCEPT !.checked = @ + 1, !.discarded = Append(@, d)]
         ELSE [st EXCEPT !.checked = @ + 1, !.kept = Append(@, d)]
    ELSE [st EXCEPT !.kept = Append(@, d)]

RECURSIVE ClassifyFrom(_, _, _, _)
ClassifyFrom(im, kinds, i, st) ==
    IF i > Len(all_document_hrefs) THEN st
    ELSE ClassifyFrom(im, kinds, i + 1,
                      ClassifyOne(im, kinds[all_document_hrefs[i]],
                                  all_document_hrefs[i], st))

ClassifyAll(im, kinds) ==
    ClassifyFrom(im, kinds, 1,
                 [kept |-> <<>>, discarded |-> <<>>, non_text |-> <<>>, checked |-> 0])

\* -------------------------------------------------------------- rollback

MissingEssentials(ess, kept) == ess \ Range(kept)

\* Mutant: the loop stops while one discarded unit is left.
RollbackGuardKeepsOne(ess, kept, discarded) ==
    MissingEssentials(ess, kept) # {} /\ Len(discarded) > 1

RollbackGuard(ess, kept, discarded) ==
    MissingEssentials(ess, kept) # {} /\ discarded # <<>>

\* Mutant: the oldest discarded unit is restored first.
RestoreOneOldestFirst(kept, discarded) ==
    [kept |-> <<Head(discarded)>> \o kept, discarded |-> Tail(discarded)]

\* discarded_files.pop() ; kept_files.insert(0, file_to_restore)
RestoreOne(kept, discarded) ==
    [kept |-> <<Last(discarded)>> \o kept, discarded |-> Front(discarded)]

\* kept_files.sort(key=all_document_hrefs.index): a stable insertion sort.
RECURSIVE InsertSorted(_, _)
InsertSorted(x, s) ==
    IF s = <<>> THEN <<x>>
    ELSE IF x < Head(s) THEN <<x>> \o s
    ELSE <<Head(s)>> \o InsertSorted(x, Tail(s))

\* Mutant: the re-sort is left out.
SortByIndexOmitted(s) == s

RECURSIVE SortByIndex(_)
SortByIndex(s) ==
    IF s = <<>> THEN <<>>
    ELSE InsertSorted(Last(s), SortByIndex(Front(s)))

\* ------------------------------------------------------ front-matter trim

\* Index of the first essential unit of kept, or -1 (0-based, as the code's).
RECURSIVE FirstEssentialFrom(_, _, _)
FirstEssentialFrom(kept, ess, i) ==
    IF i > Len(kept) THEN -1
    ELSE IF kept[i] \in ess THEN i - 1
    ELSE FirstEssentialFrom(kept, ess, i + 1)

first_chapter_start_index(kept, ess) == FirstEssentialFrom(kept, ess, 1)

\* Mutant: the slice starts one past the first essential unit.
TrimFrontMatterOnePast(kept, ess) ==
    IF first_chapter_start_index(kept, ess) # -1
    THEN SubSeq(kept, first_chapter_start_index(kept, ess) + 2, Len(kept))
    ELSE kept

TrimFrontMatter(kept, ess) ==
    IF first_chapter_start_index(kept, ess) # -1
    THEN SubSeq(kept, first_chapter_start_index(kept, ess) + 1, Len(kept))
    ELSE kept

\* MainWindow's copy groups kept_files as they are; EpubHandler's trims first.
FinalContent(im, kept, ess) ==
    IF im = "EpubHandler" THEN TrimFrontMatter(kept, ess) ELSE kept

\* --------------------------------------------------------------- grouping

\* Mutant: the essential test reads the previous unit, files[i - 1].
RECURSIVE GroupFromPrevious(_, _, _, _, _)
GroupFromPrevious(files, ess, i, acc, cur) ==
    IF i > Len(files) THEN Append(acc, cur)
    ELSE IF files[i - 1] \in ess
    THEN GroupFromPrevious(files, ess, i + 1, Append(acc, cur), <<files[i]>>)
    ELSE GroupFromPrevious(files, ess, i + 1, acc, Append(cur, files[i]))

\* The loop "for i in range(1, len(files))": acc is final_chapter_groups,
\* cur is current_group.
RECURSIVE GroupFrom(_, _, _, _, _)
GroupFrom(files, ess, i, acc, cur) ==
    IF i > Len(files) THEN Append(acc, cur)
    ELSE IF files[i] \in ess
    THEN GroupFrom(files, ess, i + 1, Append(acc, cur), <<files[i]>>)
    ELSE GroupFrom(files, ess, i + 1, acc, Append(cur, files[i]))

\* Mutant: the append of the last current_group after the loop is missing.
GroupFilesDropsLast(files, ess) ==
    IF files # <<>>
    THEN Front(GroupFrom(files, ess, 2, <<>>, <<files[1]>>))
    ELSE <<>>

GroupFiles(files, ess) ==
    IF files # <<>> THEN GroupFrom(files, ess, 2, <<>>, <<files[1]>>) ELSE <<>>

\* ---------------------------------------------------------- _group_images

\* An (image_id, bytes) tuple: the j-th image found in document d.  The id is
\* the value of image_counter; the bytes are whatever the manifest item
\* holds, here a token that names the item.
ImageRecord(id, d, j) == <<id, <<"bytes", d, j>>>>

\* s.extend(t)
Extend(s, t) == s \o t

\* The keys of a dict in insertion order; image_map is filled in document
\* order, so its keys ascend.
RECURSIVE KeysInOrder(_)
KeysInOrder(S) ==
    IF S = {} THEN <<>>
    ELSE LET m == CHOOSE x \in S : \A y \in S : x <= y
         IN <<m>> \o KeysInOrder(S \ {m})

\* list.index(x), counted from 1.
IndexOf(s, x) == CHOOSE i \in DOMAIN s : s[i] = x /\ \A j \in 1..(i - 1) : s[j] # x

\* {href: i for i, group in enumerate(chapter_groups) for href in group}:
\* a later group overwrites an earlier one.  Groups are counted from 1.
href_to_chapter_index(groups) ==
    [h \in UNION {Range(groups[g]) : g \in DOMAIN groups} |->
        CHOOSE g \in DOMAIN groups :
            /\ h \in Range(groups[g])
            /\ \A g2 \in DOMAIN groups : h \in Range(groups[g2]) => g2 <= g]

\* Mutant: the backward scan starts at the document before i.
ScanBackFromPrevious(docs, groups, doc_idx) ==
    LET RECURSIVE Scan(_)
        Scan(k) ==
            IF k < 1 THEN -1
            ELSE IF docs[k] \in DOMAIN href_to_chapter_index(groups)
            THEN href_to_chapter_index(groups)[docs[k]]
            ELSE Scan(k - 1)
    IN Scan(doc_idx - 1)

\* "for doc_idx in range(i, -1, -1)": current_chapter_index, or -1.
RECURSIVE ScanBack(_, _, _)
ScanBack(docs, groups, doc_idx) ==
    IF doc_idx < 1 THEN -1
    ELSE IF docs[doc_idx] \in DOMAIN href_to_chapter_index(groups)
    THEN href_to_chapter_index(groups)[docs[doc_idx]]
    ELSE ScanBack(docs, groups, doc_idx - 1)

\* Mutant: the branch for documents after the last chapter was copied from
\* the cover branch and still names the cover.
BucketOfCopiedBranch(i, first, last) ==
    IF i < first THEN "cover"
    ELSE IF i > last THEN "cover"
    ELSE "chapters"

\* Which of the three branches document number i takes.
BucketOf(i, first, last) ==
    IF i < first THEN "cover"
    ELSE IF i > last THEN "ending"
    ELSE "chapters"

\* One iteration of "for i, doc_href in enumerate(all_docs_in_order)".
PlaceDocument(g, groups, imap, docs, i) ==
    LET first == IndexOf(docs, groups[1][1])
        last == IndexOf(docs, Last(Last(groups)))
        current_chapter_index == ScanBack(docs, groups, i)
    IN IF docs[i] \notin DOMAIN imap THEN g
       ELSE IF BucketOf(i, first, last) = "cover"
       THEN [g EXCEPT !.cover = Extend(@, imap[docs[i]])]
       ELSE IF BucketOf(i, first, last) = "ending"
       THEN [g EXCEPT !.ending = Extend(@, imap[docs[i]])]
       ELSE IF current_chapter_index # -1
       THEN [g EXCEPT !.chapters[current_chapter_index] = Extend(@, imap[docs[i]])]
       ELSE g

RECURSIVE PlaceFrom(_, _, _, _, _)
PlaceFrom(g, groups, imap, docs, i) ==
    IF i > Len(docs) THEN g
    ELSE PlaceFrom(PlaceDocument(g, groups, imap, docs, i), groups, imap, docs, i + 1)

\* The branch "if not chapter_groups": cover.append(img_data) per item of
\* image_map, img_data being the document's whole list.
CoverOnly(g, imap) ==
    [g EXCEPT !.cover =
        [k \in 1..Cardinality(DOMAIN imap) |-> imap[KeysInOrder(DOMAIN imap)[k]]]]

EmptyGrouped(groups) ==
    [cover |-> <<>>, chapters |-> [g \in 1..Len(groups) |-> <<>>], ending |-> <<>>]

group_images(groups, imap, docs) ==
    IF groups = <<>>
    THEN CoverOnly(EmptyGrouped(groups), imap)
    ELSE PlaceFrom(EmptyGrouped(groups), groups, imap, docs, 1)

\* ------------------------------------------- arguments of _group_images

ImgDocs == 1..NumImgDocs

\* Chapter groups as _get_epub_chapter_groups builds them: a contiguous
\* partition of an ascending list of documents.
ChapterGroupInputs ==
    {GroupFiles(KeysInOrder(S), E) : S \in SUBSET ImgDocs, E \in SUBSET ImgDocs}

\* image_counter before document d, when document e holds cnt[e] images.
RECURSIVE ImagesBefore(_, _)
ImagesBefore(cnt, d) ==
    IF d <= 1 THEN 0 ELSE ImagesBefore(cnt, d - 1) + cnt[d - 1]

\* image_map as _extract_images_from_non_text_files builds it: the documents
\* with an image, each with its list, the ids counting up in document order.
ImageMapOf(cnt) ==
    [d \in {e \in ImgDocs : cnt[e] > 0} |->
        [j \in 1..cnt[d] |-> ImageRecord(ImagesBefore(cnt, d) + j - 1, d, j)]]

ImageMapInputs == {ImageMapOf(cnt) : cnt \in [ImgDocs -> 0..MaxImages]}

NoGrouped == [cover |-> <<>>, chapters |-> <<>>, ending |-> <<>>]

\* ---------------------------------------------------------------- actions

Init ==
    /\ UiIdle
    /\ impl \in Impls
    /\ text_kind \in [Docs -> Kinds]
    /\ essential \in EssentialSets
    /\ pc = "classify"
    /\ kept_files = <<>>
    /\ discarded_files = <<>>
    /\ non_text = <<>>
    /\ documents_checked_count = 0
    /\ restored = 0
    /\ final_content_files = <<>>
    /\ final_chapter_groups = <<>>
    /\ chapter_groups = <<>>
    /\ image_map = <<>>
    /\ all_docs_in_order = <<>>
    /\ grouped = NoGrouped
    /\ HandlersIdle

\* The loop that splits the spine into kept, discarded and non-text files.
Classify ==
    /\ pc = "classify"
    /\ LET st == ClassifyAll(impl, text_kind) IN
        /\ kept_files' = st.kept
        /\ discarded_files' = st.discarded
        /\ non_text' = st.non_text
        /\ documents_checked_count' = st.checked
    /\ pc' = "rollback"
    /\ UNCHANGED <<uiVars, impl, text_kind, essential, restored, groupVars, imageVars,
                   handlerVars>>

\* One iteration of "while missing_essentials and discarded_files".
Rollback ==
    /\ pc = "rollback"
    /\ RollbackGuard(essential, kept_files, discarded_files)
    /\ LET r == RestoreOne(kept_files, discarded_files) IN
        /\ kept_files' = r.kept
        /\ discarded_files' = r.discarded
    /\ restored' = restored + 1
    /\ UNCHANGED <<uiVars, impl, text_kind, essential, pc, non_text,
                   documents_checked_count, groupVars, imageVars, handlerVars>>

\* The loop has ended: sort, trim (EpubHandler), group, return.
FinishGroups ==
    /\ pc = "rollback"
    /\ ~RollbackGuard(essential, kept_files, discarded_files)
    /\ kept_files' = SortByIndex(kept_files)
    /\ final_content_files' = FinalContent(impl, kept_files', essential)
    /\ final_chapter_groups' = GroupFiles(final_content_files', essential)
    /\ pc' = "done"
    /\ UNCHANGED <<uiVars, impl, text_kind, essential, discarded_files, non_text,
                   documents_checked_count, restored, imageVars, handlerVars>>

Next == Classify \/ Rollback \/ FinishGroups

Spec == Init /\ [][Next]_vars

\* _group_images on its own: any chapter groups and any image map over the
\* documents of all_docs_in_order.  The variables of
\* _get_epub_chapter_groups are idle here.
InitImages ==
    /\ UiIdle
    /\ impl = "EpubHandler"
    /\ text_kind = [d \in Docs |-> "empty"]
    /\ essential = {}
    /\ pc = "group_images"
    /\ kept_files = <<>>
    /\ discarded_files = <<>>
    /\ non_text = <<>>
    /\ documents_checked_count = 0
    /\ restored = 0
    /\ final_content_files = <<>>
    /\ final_chapter_groups = <<>>
    /\ chapter_groups \in ChapterGroupInputs
    /\ image_map \in ImageMapInputs
    /\ all_docs_in_order = [i \in 1..NumImgDocs |-> i]
    /\ grouped = NoGrouped
    /\ HandlersIdle

GroupImages ==
    /\ pc = "group_images"
    /\ grouped' = group_images(chapter_groups, image_map, all_docs_in_order)
    /\ pc' = "grouped"
    /\ UNCHANGED <<uiVars, classifierVars, groupVars, chapter_groups, image_map,
                   all_docs_in_order, handlerVars>>

NextImages == GroupImages

SpecImages == InitImages /\ [][NextImages]_vars

\* ----------------------------------------------------------------- claims

\* Units the classifier put in kept_files or discarded_files.
ClassifiedDocs == Range(kept_files) \cup Range(discarded_files)

\* Rank of document d among the text-bearing documents, in spine order.
TextRank(d) == Cardinality({e \in Docs : e <= d /\ text_kind[e] # "empty"})

JustClassified == pc = "rollback" /\ restored = 0

\* C1: after the rollback loop has ended, if every essential href is a unit
\* the classifier put in kept or discarded, every essential href is in
\* kept_files.
C1_EssentialSubsetKept ==
    (pc = "done" /\ essential \subseteq ClassifiedDocs)
        => essential \subseteq Range(kept_files)

\* C1 witness: two rollback iterations brought back an essential unit that
\* the classifier had discarded.
C1_Witness ==
    /\ pc = "done"
    /\ restored >= 2
    /\ essential \subseteq Range(kept_files)
    /\ \E d \in essential \cap Docs :
          text_kind[d] = "junk" /\ TextRank(d) <= JUNK_CHECK_LIMIT

\* C2: the chapter groups, concatenated in order, are the grouped list
\* exactly (same units, same order, none twice, none missing), and there are
\* zero groups exactly when the list is empty.
C2_GroupsPartition ==
    pc = "done" =>
        /\ Flatten(final_chapter_groups) = final_content_files
        /\ IsDuplicateFree(Flatten(final_chapter_groups))
        /\ (final_chapter_groups = <<>>) <=> (final_content_files = <<>>)

\* C2 witness: three groups or more, one of them of several units.
C2_Witness ==
    /\ pc = "done"
    /\ Len(final_chapter_groups) >= 3
    /\ \E g \in DOMAIN final_chapter_groups : Len(final_chapter_groups[g]) >= 2

\* C3: every group is non-empty, an essential unit is only ever the first
\* element of a group, every group but the first begins with an essential
\* unit; so a non-empty list with no essential unit is exactly one group.
C3_GroupShape ==
    pc = "done" =>
        /\ \A g \in DOMAIN final_chapter_groups :
              /\ final_chapter_groups[g] # <<>>
              /\ \A j \in 2..Len(final_chapter_groups[g]) :
                    final_chapter_groups[g][j] \notin essential
              /\ g > 1 => final_chapter_groups[g][1] \in essential
        /\ (final_content_files # <<>>
              /\ Range(final_content_files) \cap essential = {})
            => final_chapter_groups = <<final_content_files>>

\* C3 witness: a first group opened by a non-essential unit, followed by a
\* group that an essential unit opened.
C3_Witness ==
    /\ pc = "done"
    /\ Len(final_chapter_groups) >= 2
    /\ final_chapter_groups[1][1] \notin essential
    /\ Len(final_chapter_groups[1]) >= 2

\* C4: (EpubHandler) if some unit of the post-rollback kept list is
\* essential, the final content list is the suffix of kept that starts at the
\* first essential unit; if none is, it is kept unchanged.
C4_FrontMatterTrim ==
    (pc = "done" /\ impl = "EpubHandler") =>
        IF \E i \in DOMAIN kept_files : kept_files[i] \in essential
        THEN LET m == CHOOSE i \in DOMAIN kept_files :
                          /\ kept_files[i] \in essential
                          /\ \A j \in 1..(i - 1) : kept_files[j] \notin essential
             IN /\ final_content_files = SubSeq(kept_files, m, Len(kept_files))
                /\ final_content_files[1] \in essential
        ELSE final_content_files = kept_files

\* C4 witness: front matter was cut and more than the first chapter is left.
C4_Witness ==
    /\ pc = "done"
    /\ impl = "EpubHandler"
    /\ Len(final_content_files) >= 2
    /\ Len(kept_files) >= Len(final_content_files) + 2

\* C5: right after classification, a unit is in discarded_files if and only
\* if it is text-bearing, among the first JUNK_CHECK_LIMIT text-bearing units
\* and junk; every text-bearing unit after those is kept; at most
\* JUNK_CHECK_LIMIT units are discarded.
C5_Classifier ==
    JustClassified =>
        /\ \A d \in Docs :
              d \in Range(discarded_files)
                  <=> /\ text_kind[d] = "junk"
                      /\ TextRank(d) <= JUNK_CHECK_LIMIT
        /\ \A d \in Docs :
              (text_kind[d] # "empty" /\ TextRank(d) > JUNK_CHECK_LIMIT)
                  => d \in Range(kept_files)
        /\ \A d \in Docs :
              (text_kind[d] = "clean") => d \in Range(kept_files)
        /\ Len(discarded_files) <= JUNK_CHECK_LIMIT

\* C5 witness: a junk unit past the first JUNK_CHECK_LIMIT text-bearing units
\* was kept, while junk units within them were discarded.
C5_Witness ==
    /\ JustClassified
    /\ Len(discarded_files) >= JUNK_CHECK_LIMIT - 1
    /\ \E d \in Docs :
          /\ text_kind[d] = "junk"
          /\ TextRank(d) > JUNK_CHECK_LIMIT
          /\ d \in Range(kept_files)

\* C6 as stated: an empty-text unit is in neither kept_files nor
\* discarded_files after classification, only in the non-text collection.
C6_EmptyNeverClassified ==
    JustClassified =>
        \A d \in Docs :
            text_kind[d] = "empty"
                => /\ d \notin Range(kept_files)
                   /\ d \notin Range(discarded_files)
                   /\ d \in Range(non_text)

\* C6 amended: an empty-text unit is never in discarded_files and is always
\* in the non-text collection (which holds nothing else); EpubHandler's copy
\* also appends it to kept_files, MainWindow's copy does not.
C6_EmptyNeverDiscarded ==
    JustClassified =>
        /\ \A d \in Docs :
              text_kind[d] = "empty"
                  => /\ d \notin Range(discarded_files)
                     /\ d \in Range(non_text)
                     /\ (d \in Range(kept_files)) <=> (impl = "EpubHandler")
        /\ \A d \in Range(non_text) : text_kind[d] = "empty"

\* C6 witness: EpubHandler kept an empty-text unit while discarding junk.
C6_Witness ==
    /\ JustClassified
    /\ impl = "EpubHandler"
    /\ discarded_files # <<>>
    /\ \E d \in Docs : text_kind[d] = "empty" /\ d \in Range(kept_files)

\* C7: after rollback and the re-sort, kept_files has no duplicate and is in
\* document order, and kept_files and what is left of discarded_files are
\* disjoint and together are exactly the classified units.
C7_KeptSortedCover ==
    pc = "done" =>
        /\ IsDuplicateFree(kept_files)
        /\ IsAscending(kept_files)
        /\ IsDuplicateFree(discarded_files)
        /\ Range(kept_files) \cap Range(discarded_files) = {}
        /\ ClassifiedDocs
             = {d \in Docs : impl = "EpubHandler" \/ text_kind[d] # "empty"}

\* C7 witness: a restored unit was re-inserted behind a unit kept from the
\* start, and some discarded unit stayed discarded.
C7_Witness ==
    /\ pc = "done"
    /\ restored >= 1
    /\ discarded_files # <<>>
    /\ text_kind[kept_files[1]] # "junk"
    /\ \E i \in DOMAIN kept_files :
          /\ i > 1
          /\ text_kind[kept_files[i]] = "junk"
          /\ TextRank(kept_files[i]) <= JUNK_CHECK_LIMIT

\* ------------------------------------------------- claims on _group_images

\* Position of document d in all_docs_in_order.
Pos(d) == CHOOSE i \in DOMAIN all_docs_in_order : all_docs_in_order[i] = d

GroupedDocs == UNION {Range(chapter_groups[g]) : g \in DOMAIN chapter_groups}

FirstPos == Pos(chapter_groups[1][1])

LastPos == Pos(Last(Last(chapter_groups)))

\* The group of the nearest document at or before d that is in a group.
NearestGroup(d) ==
    LET e == CHOOSE x \in GroupedDocs :
                 /\ Pos(x) <= Pos(d)
                 /\ \A y \in GroupedDocs : Pos(y) <= Pos(d) => Pos(y) <= Pos(x)
    IN CHOOSE g \in DOMAIN chapter_groups : e \in Range(chapter_groups[g])

\* How often x occurs in the sequence s.
Occurrences(s, x) == Cardinality({i \in DOMAIN s : s[i] = x})

\* Every (image_id, bytes) tuple of image_map, in the order of the map.
AllImages == Flatten([k \in 1..Cardinality(DOMAIN image_map) |->
                         image_map[KeysInOrder(DOMAIN image_map)[k]]])

\* C8: with chapter groups, the images of a document that lies from the
\* first unit of the first group to the last unit of the last group are all
\* in chapters[k], k being the group of the nearest document at or before it
\* that belongs to a group, and they are there in the document's order.
C8_NearestPrecedingGroup ==
    (pc = "grouped" /\ chapter_groups # <<>>) =>
        \A d \in DOMAIN image_map :
            (FirstPos <= Pos(d) /\ Pos(d) <= LastPos) =>
                /\ \A j \in DOMAIN image_map[d] :
                      Occurrences(grouped.chapters[NearestGroup(d)],
                                  image_map[d][j]) = 1
                /\ \E a \in 0..Len(grouped.chapters[NearestGroup(d)]) :
                      SubSeq(grouped.chapters[NearestGroup(d)],
                             a + 1, a + Len(image_map[d])) = image_map[d]

\* C8 witness: an image document between the last unit of one group and the
\* first unit of the next, itself in no group, went to the earlier group;
\* and an image document that opens a later group went to its own.
C8_Witness ==
    /\ pc = "grouped"
    /\ Len(chapter_groups) >= 2
    /\ \E d \in DOMAIN image_map :
          /\ d \notin GroupedDocs
          /\ Pos(Last(chapter_groups[1])) < Pos(d)
          /\ Pos(d) < Pos(chapter_groups[2][1])
          /\ grouped.chapters[1] = image_map[d]
    /\ \E d \in DOMAIN image_map :
          /\ d = chapter_groups[2][1]
          /\ grouped.chapters[2] # <<>>

\* C9: with chapter groups, every image of image_map is in exactly one of
\* cover, chapters[*], ending, exactly once, and the buckets hold nothing
\* else; images of a document before the first unit of the first group are in
\* cover, those of a document after the last unit of the last group in ending.
C9_EveryImageOnce ==
    (pc = "grouped" /\ chapter_groups # <<>>) =>
        LET everything == grouped.cover \o Flatten(grouped.chapters) \o grouped.ending
        IN /\ Len(everything) = Len(AllImages)
           /\ Len(grouped.chapters) = Len(chapter_groups)
           /\ \A d \in DOMAIN image_map : \A j \in DOMAIN image_map[d] :
                 /\ Occurrences(everything, image_map[d][j]) = 1
                 /\ Pos(d) < FirstPos => Occurrences(grouped.cover, image_map[d][j]) = 1
                 /\ Pos(d) > LastPos => Occurrences(grouped.ending, image_map[d][j]) = 1

\* C9 witness: images went to the cover, to a chapter and to the ending in
\* one call.
C9_Witness ==
    /\ pc = "grouped"
    /\ chapter_groups # <<>>
    /\ Len(grouped.cover) >= 2
    /\ grouped.ending # <<>>
    /\ \E g \in DOMAIN grouped.chapters : grouped.chapters[g] # <<>>

PipelineIdle ==
    /\ impl = "EpubHandler"
    /\ text_kind = [d \in Docs |-> "empty"]
    /\ essential = {}
    /\ kept_files = <<>>
    /\ discarded_files = <<>>
    /\ non_text = <<>>
    /\ documents_checked_count = 0
    /\ restored = 0
    /\ final_content_files = <<>>
    /\ final_chapter_groups = <<>>

\* Idle values of the arguments and the result of _group_images.
GroupImagesIdle ==
    /\ chapter_groups = <<>>
    /\ all_docs_in_order = <<>>
    /\ grouped = NoGrouped

\* dict[key] = value
DictSet(m, key, value) ==
    [x \in DOMAIN m \cup {key} |-> IF x = key THEN value ELSE m[x]]

\* str.endswith on character sequences.
EndsWith(s, suffix) ==
    /\ Len(suffix) <= Len(s)
    /\ SubSeq(s, Len(s) - Len(suffix) + 1, Len(s)) = suffix

\* The items of the book, in the order of book.get_items(): a document and
\* two images whose names all end in "a".
Manifest ==
    << [name |-> <<"t", "/", "a">>, type |-> "ITEM_DOCUMENT"],
       [name |-> <<"i", "/", "a">>, type |-> "ITEM_IMAGE"],
       [name |-> <<"j", "/", "a">>, type |-> "ITEM_IMAGE"] >>

\* img_tag.get('src') of a tag without the attribute.
NoSrc == <<>>

\* The src attributes an img tag may carry: none, a path to an image of the
\* manifest, a path to nothing in the manifest.
ImgSrcs == {NoSrc, <<".", ".", "/", "a">>, <<"c">>}

\* img_src.split('/')[-1]
RECURSIVE LastSegment(_)
LastSegment(src) ==
    IF \A k \in DOMAIN src : src[k] # "/" THEN src
    ELSE LastSegment(Tail(src))

\* The bytes of manifest item k.
ItemContent(k) == <<"content", k>>

\* The inner loop over href_to_item_map: the first image item whose name
\* ends with clean_href, 0 when there is none.
RECURSIVE FirstImageItem(_, _)
FirstImageItem(clean_href, k) ==
    IF k > Len(Manifest) THEN 0
    ELSE IF EndsWith(Manifest[k].name, clean_href)
            /\ Manifest[k].type = "ITEM_IMAGE"
         THEN k
         ELSE FirstImageItem(clean_href, k + 1)

\* Variant: the counter moves on for every reference that has a src.
ExtractTagCountsEveryRef(img_src, st) ==
    IF img_src = NoSrc THEN st
    ELSE LET k == FirstImageItem(LastSegment(img_src), 1) IN
         IF k = 0 THEN [st EXCEPT !.counter = @ + 1]
         ELSE [counter |-> st.counter + 1,
               doc_images |-> Append(st.doc_images,
                                     <<st.counter, ItemContent(k)>>)]

\* One img tag of one document: st is [counter, doc_images].
ExtractTag(img_src, st) ==
    IF img_src = NoSrc THEN st
    ELSE LET k == FirstImageItem(LastSegment(img_src), 1) IN
         IF k = 0 THEN st
         ELSE [counter |-> st.counter + 1,
               doc_images |-> Append(st.doc_images,
                                     <<st.counter, ItemContent(k)>>)]

RECURSIVE ExtractTags(_, _)
ExtractTags(tags, st) ==
    IF tags = <<>> THEN st
    ELSE ExtractTags(Tail(tags), ExtractTag(Head(tags), st))

\* The outer loop from the i-th key of non_text_docs_map on.
RECURSIVE ExtractFrom(_, _, _, _)
ExtractFrom(docs_map, keys, i, st) ==
    IF i > Len(keys) THEN st
    ELSE LET d == keys[i]
             r == ExtractTags(docs_map[d],
                              [counter |-> st.counter, doc_images |-> <<>>])
         IN ExtractFrom(docs_map, keys, i + 1,
                [counter |-> r.counter,
                 image_map |-> IF r.doc_images # <<>>
                               THEN DictSet(st.image_map, d, r.doc_images)
                               ELSE st.image_map])

extract_images_from_non_text_files(docs_map) ==
    ExtractFrom(docs_map, KeysInOrder(DOMAIN docs_map), 1,
                [counter |-> 0, image_map |-> <<>>])

ExtractDocs == 1..NumExtractDocs

TagLists == UNION {[1..n -> ImgSrcs] : n \in 0..MaxTags}

NonTextDocsMaps == UNION {[D -> TagLists] : D \in SUBSET ExtractDocs}

InitExtract ==
    /\ UiIdle
    /\ PipelineIdle
    /\ GroupImagesIdle
    /\ pc = "extract"
    /\ non_text_docs_map \in NonTextDocsMaps
    /\ image_map = <<>>
    /\ image_counter = 0
    /\ ChaptersIdle
    /\ PdfIdle
    /\ FooterIdle
    /\ TextIdle

ExtractImages ==
    /\ pc = "extract"
    /\ LET r == extract_images_from_non_text_files(non_text_docs_map) IN
        /\ image_map' = r.image_map
        /\ image_counter' = r.counter
    /\ pc' = "extracted"
    /\ UNCHANGED <<uiVars, classifierVars, groupVars, chapter_groups,
                   all_docs_in_order, grouped, non_text_docs_map, chapterVars,
                   pdfVars, footerVars, textVars>>

NextExtract == ExtractImages

SpecExtract == InitExtract /\ [][NextExtract]_vars

\* An img reference the manifest can resolve to an image.
Resolvable(img_src) ==
    /\ img_src # NoSrc
    /\ \E k \in DOMAIN Manifest :
          /\ Manifest[k].type = "ITEM_IMAGE"
          /\ EndsWith(Manifest[k].name, LastSegment(img_src))

ResolvableCount(tags) == Cardinality({k \in DOMAIN tags : Resolvable(tags[k])})

\* C11: the ids handed out in one run, read in document order and tag
\* order, are 0, 1, ..., n-1 with n the number of resolvable references;
\* each document gets as many images as it has resolvable references (and
\* no entry when it has none), whatever unresolvable references lie between.
C11_SequentialImageIds ==
    pc = "extracted" =>
        /\ \A k \in DOMAIN AllImages : AllImages[k][1] = k - 1
        /\ image_counter = Len(AllImages)
        /\ \A d \in DOMAIN non_text_docs_map :
              LET n == ResolvableCount(non_text_docs_map[d]) IN
              IF n = 0 THEN d \notin DOMAIN image_map
              ELSE d \in DOMAIN image_map /\ Len(image_map[d]) = n

\* C11 witness: a reference that matches nothing stands between two that
\* resolve, and a later document still gets the next id.
C11_Witness ==
    /\ pc = "extracted"
    /\ \E d, e \in DOMAIN non_text_docs_map :
          /\ d < e
          /\ Len(non_text_docs_map[d]) >= 2
          /\ Resolvable(non_text_docs_map[d][1])
          /\ ~Resolvable(non_text_docs_map[d][2])
          /\ non_text_docs_map[d][2] # NoSrc
          /\ e \in DOMAIN image_map
          /\ image_map[e][1][1] = 1

\* ====================================================== chapter processor
\* EpubHandler._process_epub_chapters on its own, on arguments of the shape
\* process_epub hands it: the groups of _get_epub_chapter_groups for the
\* hrefs of toc_data, and an image_map of _extract_images_from_non_text_files.

ChapterDocs == 1..NumChapterDocs

\* What the book holds for an href: images found for it (n of them), no
\* item, an item whose markup has no body, an item with a body.  Items
\* carry one p tag with text.  A unit of img tags none of which resolved is
\* not in image_map: it is an item with a body and no text.
UnitContents ==
    {<<"images", n>> : n \in 1..MaxImages}
        \cup {<<"no_item", 0>>, <<"no_body", 0>>, <<"body", 0>>}

ImageCount(content, d) == IF content[d][1] = "images" THEN content[d][2] ELSE 0

\* The image_map of a book with these contents, ids counting up in document
\* order.
ChapterImageMap(content) ==
    LET cnt == [d \in ChapterDocs |-> ImageCount(content, d)] IN
    [d \in {e \in ChapterDocs : cnt[e] > 0} |->
        [j \in 1..cnt[d] |-> ImageRecord(ImagesBefore(cnt, d) + j - 1, d, j)]]

\* toc_data for a set of hrefs: (title, href) pairs.
TitleOf(href) == <<"title", href>>

TocDataOf(E) == [k \in 1..Cardinality(E) |->
                    <<TitleOf(KeysInOrder(E)[k]), KeysInOrder(E)[k]>>]

\* href_to_title_map = {href: title for title, href in toc_data}
href_to_title_map(toc) ==
    [h \in {toc[k][2] : k \in DOMAIN toc} |->
        LET last == CHOOSE k \in DOMAIN toc :
                        /\ toc[k][2] = h
                        /\ \A m \in DOMAIN toc : toc[m][2] = h => m <= k
        IN toc[last][1]]

\* f"chapter-anchor-{i}", i counted from 0.
AnchorName(i) == <<"chapter-anchor", i>>

NoAnchor == <<"no-anchor">>

PlaceholderHtml(image_id) == <<"placeholder_html", image_id>>

PlaceholderText == <<"[SEE IMAGE HERE.]">>

\* str(soup.body) of document d, with the anchor inserted at its start or
\* without one.
BodyHtml(d, anchor) == <<"body", d, anchor>>

\* The text of the p tag of document d.
TagText(d) == <<"text", d>>

\* Variant: only the first image of a file gets a placeholder.
EmitPlaceholdersFirstOnly(images, out) ==
    IF images = <<>> THEN out
    ELSE [out EXCEPT !.html = Append(@, PlaceholderHtml(Head(images)[1])),
                     !.text = Append(@, PlaceholderText)]

\* The placeholders of the images of one file.
RECURSIVE EmitPlaceholders(_, _)
EmitPlaceholders(images, out) ==
    IF images = <<>> THEN out
    ELSE EmitPlaceholders(Tail(images),
            [out EXCEPT !.html = Append(@, PlaceholderHtml(Head(images)[1])),
                        !.text = Append(@, PlaceholderText)])

\* Variant: an image-bearing file goes on into the markup path as well.
ProcessFileNoContinue(file_href, first_file_href, is_essential_chapter, anchor_name, imap, content, out) ==
    LET ph == IF file_href \in DOMAIN imap
              THEN EmitPlaceholders(imap[file_href], out) ELSE out
    IN [ph EXCEPT !.html = Append(@, BodyHtml(file_href, NoAnchor)),
                  !.text = Append(@, TagText(file_href))]

\* Body of "for file_href in group".
ProcessFile(file_href, first_file_href, is_essential_chapter, anchor_name, imap, content, out) ==
    IF file_href \in DOMAIN imap
    THEN EmitPlaceholders(imap[file_href], out)
    ELSE IF content[file_href][1] = "no_item" THEN out
    ELSE LET withBody ==
                IF content[file_href][1] \in {"body", "images"}
                THEN [out EXCEPT !.html = Append(@,
                        BodyHtml(file_href,
                                 IF file_href = first_file_href
                                    /\ is_essential_chapter
                                 THEN anchor_name ELSE NoAnchor))]
                ELSE out
         IN IF content[file_href][1] = "images" THEN withBody
            ELSE [withBody EXCEPT !.text = Append(@, TagText(file_href))]

RECURSIVE ProcessFiles(_, _, _, _, _, _, _)
ProcessFiles(group, k, is_essential_chapter, anchor_name, imap, content, out) ==
    IF k > Len(group) THEN out
    ELSE ProcessFiles(group, k + 1, is_essential_chapter, anchor_name, imap,
                      content,
                      ProcessFile(group[k], group[1], is_essential_chapter,
                                  anchor_name, imap, content, out))

\* "for i, group in enumerate(chapter_groups)" from group i (from 0) on.
RECURSIVE ProcessGroups(_, _, _, _, _, _)
ProcessGroups(groups, i, titles, imap, content, out) ==
    IF i >= Len(groups) THEN out
    ELSE LET group == groups[i + 1]
             first_file_href == group[1]
             anchor_name == AnchorName(i)
             is_essential_chapter == first_file_href \in DOMAIN titles
             recorded ==
                IF is_essential_chapter
                THEN [out EXCEPT !.ui_toc =
                        Append(@, <<titles[first_file_href], anchor_name>>)]
                ELSE out
         IN ProcessGroups(groups, i + 1, titles, imap, content,
                ProcessFiles(group, 1, is_essential_chapter, anchor_name,
                             imap, content, recorded))

process_epub_chapters(groups, toc, imap, content) ==
    ProcessGroups(groups, 0, href_to_title_map(toc), imap, content,
                  [html |-> <<>>, text |-> <<>>, ui_toc |-> <<>>])

\* The books: the documents that reach the groups, the essential ones among
\* them, and what each holds.
ChapterBooks ==
    {b \in [files : SUBSET ChapterDocs, essential : SUBSET ChapterDocs,
            content : [ChapterDocs -> UnitContents]] :
        /\ b.essential \subseteq b.files
        /\ \A d \in ChapterDocs \ b.files : b.content[d] = <<"no_item", 0>>}

InitChapters ==
    /\ UiIdle
    /\ PipelineIdle
    /\ all_docs_in_order = <<>>
    /\ grouped = NoGrouped
    /\ ExtractIdle
    /\ pc = "chapters"
    /\ \E b \in ChapterBooks :
          /\ chapter_groups = GroupFiles(KeysInOrder(b.files), b.essential)
          /\ toc_data = TocDataOf(b.essential)
          /\ image_map = ChapterImageMap(b.content)
          /\ unit_content = b.content
    /\ html_body_parts = <<>>
    /\ plain_text_parts = <<>>
    /\ ui_toc = <<>>
    /\ PdfIdle
    /\ FooterIdle
    /\ TextIdle

ProcessEpubChapters ==
    /\ pc = "chapters"
    /\ LET out == process_epub_chapters(chapter_groups, toc_data, image_map,
                                        unit_content) IN
        /\ html_body_parts' = out.html
        /\ plain_text_parts' = out.text
        /\ ui_toc' = out.ui_toc
    /\ pc' = "chapters_done"
    /\ UNCHANGED <<uiVars, classifierVars, groupVars, imageVars, extractVars,
                   toc_data, unit_content, pdfVars, footerVars, textVars>>

NextChapters == ProcessEpubChapters

SpecChapters == InitChapters /\ [][NextChapters]_vars

\* The units of the groups, in order.
GroupUnits == Flatten(chapter_groups)

\* Images of the image-bearing units that stand before position k of
\* GroupUnits.
RECURSIVE ImagesOfUnitsBefore(_)
ImagesOfUnitsBefore(k) ==
    IF k <= 1 THEN <<>>
    ELSE ImagesOfUnitsBefore(k - 1)
            \o (IF GroupUnits[k - 1] \in DOMAIN image_map
                THEN image_map[GroupUnits[k - 1]] ELSE <<>>)

IsPlaceholderHtml(part) == part[1] = "placeholder_html"

IsPlaceholderText(part) == part = PlaceholderText

\* Number of placeholders among parts[1..k-1].
PlaceholdersBefore(parts, k) ==
    Cardinality({m \in 1..(k - 1) :
                    IsPlaceholderHtml(parts[m]) \/ IsPlaceholderText(parts[m])})

\* C12: the placeholders in the HTML parts are, in order, one per image of
\* each image-bearing unit of the groups, each carrying its image id; the
\* plain-text parts hold as many placeholders; no markup and no text of an
\* image-bearing unit is emitted; and the placeholders of a unit stand
\* where the unit stands: every part of another unit is preceded by exactly
\* the placeholders of the image-bearing units before it.
C12_PlaceholdersPerImage ==
    pc = "chapters_done" =>
        LET expected == ImagesOfUnitsBefore(Len(GroupUnits) + 1) IN
        /\ SelectSeq(html_body_parts, IsPlaceholderHtml)
              = [k \in DOMAIN expected |-> PlaceholderHtml(expected[k][1])]
        /\ Len(SelectSeq(plain_text_parts, IsPlaceholderText)) = Len(expected)
        /\ \A k \in DOMAIN html_body_parts :
              ~IsPlaceholderHtml(html_body_parts[k]) =>
                 LET d == html_body_parts[k][2] IN
                 /\ d \notin DOMAIN image_map
                 /\ PlaceholdersBefore(html_body_parts, k)
                       = Len(ImagesOfUnitsBefore(IndexOf(GroupUnits, d)))
        /\ \A k \in DOMAIN plain_text_parts :
              ~IsPlaceholderText(plain_text_parts[k]) =>
                 LET d == plain_text_parts[k][2] IN
                 /\ d \notin DOMAIN image_map
                 /\ PlaceholdersBefore(plain_text_parts, k)
                       = Len(ImagesOfUnitsBefore(IndexOf(GroupUnits, d)))

\* C12 witness: a unit with two images stands between two units with
\* markup, and its two placeholders stand between their bodies.
C12_Witness ==
    /\ pc = "chapters_done"
    /\ \E k \in DOMAIN html_body_parts :
          /\ k + 3 \in DOMAIN html_body_parts
          /\ html_body_parts[k][1] = "body"
          /\ IsPlaceholderHtml(html_body_parts[k + 1])
          /\ IsPlaceholderHtml(html_body_parts[k + 2])
          /\ html_body_parts[k + 2][2] = html_body_parts[k + 1][2] + 1
          /\ html_body_parts[k + 3][1] = "body"

\* The unit an HTML part comes from.
HtmlOwner(part) ==
    IF IsPlaceholderHtml(part)
    THEN CHOOSE d \in DOMAIN image_map :
            \E j \in DOMAIN image_map[d] : image_map[d][j][1] = part[2]
    ELSE part[2]

\* The HTML parts that come from the units of group i (from 0).
GroupHtml(i) ==
    LET FromGroup(part) == HtmlOwner(part) \in Range(chapter_groups[i + 1])
    IN SelectSeq(html_body_parts, FromGroup)

\* The anchor markers present in the HTML parts.
AnchorsInHtml ==
    {html_body_parts[k][3] :
        k \in {m \in DOMAIN html_body_parts :
                  /\ html_body_parts[m][1] = "body"
                  /\ html_body_parts[m][3] # NoAnchor}}

\* C13: every group whose first unit is an essential TOC href has exactly
\* one (title, anchor) entry in ui_toc and its content in the HTML starts
\* with the marker of that anchor; every anchor of ui_toc is a marker of the
\* HTML; the anchors of ui_toc are pairwise distinct.
C13_AnchorForEveryEssentialGroup ==
    pc = "chapters_done" =>
        /\ \A i \in 0..(Len(chapter_groups) - 1) :
              LET first == chapter_groups[i + 1][1] IN
              first \in DOMAIN href_to_title_map(toc_data) =>
                 /\ Cardinality({k \in DOMAIN ui_toc : ui_toc[k][2] = AnchorName(i)}) = 1
                 /\ <<TitleOf(first), AnchorName(i)>> \in Range(ui_toc)
                 /\ GroupHtml(i) # <<>>
                 /\ GroupHtml(i)[1] = BodyHtml(first, AnchorName(i))
        /\ \A k \in DOMAIN ui_toc : ui_toc[k][2] \in AnchorsInHtml
        /\ IsDuplicateFree([k \in DOMAIN ui_toc |-> ui_toc[k][2]])

\* ============================================================ PDF helpers
\* _detect_pdf_start_page and _should_skip_block, each on its own, in both
\* copies (PDFHandler's and MainWindow's).

PdfImpls == {"PDFHandler", "MainWindow"}

\* sorted(list(set(candidates)))
unique_candidates(c) == KeysInOrder(Range(c))

\* Variant: a gap skips the candidate and the loop goes on.
DetectRunSkipsGap(u, i, st) ==
    LET RECURSIVE Run(_, _)
        Run(k, t) ==
            IF k > Len(u) THEN t
            ELSE IF u[k] = u[k - 1] + 1
                 THEN Run(k + 1, [pages |-> Append(t.pages, u[k]), last |-> u[k]])
                 ELSE Run(k + 1, t)
    IN Run(i, st)

\* "for i in range(1, len(unique_candidates))" from position i (from 1) on;
\* st is [pages, last].
RECURSIVE DetectRun(_, _, _)
DetectRun(u, i, st) ==
    IF i > Len(u) THEN st
    ELSE IF u[i] = u[i - 1] + 1
         THEN DetectRun(u, i + 1, [pages |-> Append(st.pages, u[i]), last |-> u[i]])
         ELSE st

\* Both copies; the result is [pages, start]: self.toc_pages and the
\* returned page.
detect_pdf_start_page(im, c) ==
    LET u == unique_candidates(c) IN
    IF im = "PDFHandler"
    THEN IF u = <<>> THEN [pages |-> <<>>, start |-> 0]
         ELSE LET r == DetectRun(u, 2, [pages |-> <<u[1]>>, last |-> u[1]])
              IN [pages |-> r.pages, start |-> r.last + 1]
    ELSE LET r == IF u # <<>>
                  THEN DetectRun(u, 2, [pages |-> <<u[1]>>, last |-> u[1]])
                  ELSE [pages |-> <<>>, last |-> -1]
         IN [pages |-> r.pages, start |-> r.last + 1]

\* block_text.lower(), on the one thing the code reads from it: whether a
\* chapter keyword stands in the text in lower case, in another case, or not
\* at all.
Lower(keyword) == IF keyword = "upper" THEN "lower" ELSE keyword

\* Variant: the keyword test reads block_text as it is.
HasKeywordCaseSensitive(b) == b.keyword = "lower"

\* keyword in block_text.lower(), for some keyword of chapter_keywords
HasKeyword(b) == Lower(b.keyword) = "lower"

\* y_pos > (page_height * 0.9) and len(block_text) < 100
InFooterZone(b) ==
    /\ 10 * b.y_pos > 9 * b.page_height
    /\ b.length < FOOTER_TEXT_LIMIT

\* Both copies: "True", "False", or "None" where MainWindow's copy falls off
\* the end of the function.
should_skip_block(im, b) ==
    IF InFooterZone(b)
    THEN IF HasKeyword(b) THEN "False"
         ELSE IF b.digit THEN "True"
         ELSE "False"
    ELSE IF im = "PDFHandler" THEN "False" ELSE "None"

\* "if self._should_skip_block(...): continue" in _get_content_text_list.
Truthy(r) == r = "True"

CandidateLists == UNION {[1..n -> 0..MaxTocPage] : n \in 0..MaxCandidates}

\* Block texts by length, keyword and digit; a text with a keyword has at
\* least its letters, a text with a digit at least the digit.
Blocks ==
    {b \in [length : {0, 1, SHORTEST_KEYWORD, SHORTEST_KEYWORD + 1,
                      FOOTER_TEXT_LIMIT - 1, FOOTER_TEXT_LIMIT,
                      FOOTER_TEXT_LIMIT + 1},
            keyword : {"none", "lower", "upper"},
            digit : BOOLEAN,
            y_pos : 0..MaxPageHeight,
            page_height : 1..MaxPageHeight] :
        /\ b.y_pos <= b.page_height
        /\ b.length >= (IF b.keyword = "none" THEN 0 ELSE SHORTEST_KEYWORD)
                         + (IF b.digit THEN 1 ELSE 0)}

InitPdf ==
    /\ UiIdle
    /\ PipelineIdle
    /\ GroupImagesIdle
    /\ image_map = <<>>
    /\ ExtractIdle
    /\ ChaptersIdle
    /\ FooterIdle
    /\ TextIdle
    /\ pdf_impl \in PdfImpls
    /\ toc_pages = <<>>
    /\ start_page = 0
    /\ skip_result = "None"
    /\ \/ pc = "detect" /\ candidates \in CandidateLists /\ block = NoBlock
       \/ pc = "skip_block" /\ candidates = <<>> /\ block \in Blocks

DetectPdfStartPage ==
    /\ pc = "detect"
    /\ LET r == detect_pdf_start_page(pdf_impl, candidates) IN
        /\ toc_pages' = r.pages
        /\ start_page' = r.start
    /\ pc' = "detected"
    /\ UNCHANGED <<uiVars, classifierVars, groupVars, imageVars, extractVars,
                   chapterVars, pdf_impl, candidates, block, skip_result,
                   footerVars, textVars>>

ShouldSkipBlock ==
    /\ pc = "skip_block"
    /\ skip_result' = should_skip_block(pdf_impl, block)
    /\ pc' = "skip_decided"
    /\ UNCHANGED <<uiVars, classifierVars, groupVars, imageVars, extractVars,
                   chapterVars, pdf_impl, candidates, toc_pages, start_page,
                   block, footerVars, textVars>>

NextPdf == DetectPdfStartPage \/ ShouldSkipBlock

SpecPdf == InitPdf /\ [][NextPdf]_vars

\* The least candidate.
FirstCandidate == CHOOSE m \in Range(candidates) : \A x \in Range(candidates) : m <= x

\* Length of the longest run FirstCandidate, FirstCandidate + 1, ... of
\* pages that are all candidates.
RunLength ==
    CHOOSE n \in 1..(MaxTocPage + 1) :
        /\ \A k \in 0..(n - 1) : FirstCandidate + k \in Range(candidates)
        /\ FirstCandidate + n \notin Range(candidates)

\* C14: toc_pages is the maximal run of consecutive pages that starts at the
\* least candidate, and the returned page is the page after the run; with
\* no candidates toc_pages is empty and the page is 0.
C14_StartPageAfterFirstRun ==
    pc = "detected" =>
        IF candidates = <<>>
        THEN toc_pages = <<>> /\ start_page = 0
        ELSE /\ toc_pages = [k \in 1..RunLength |-> FirstCandidate + k - 1]
             /\ start_page = FirstCandidate + RunLength

\* C14 witness: candidates 6, 3, 2, 4 (any order) give toc_pages 2, 3, 4 and
\* start page 5.
C14_Witness ==
    /\ pc = "detected"
    /\ Range(candidates) = {2, 3, 4, 6}
    /\ candidates[1] = 6
    /\ toc_pages = <<2, 3, 4>>
    /\ start_page = 5

\* C15: the block is dropped exactly when it lies below 90% of the page
\* height, is shorter than 100 characters, holds no chapter keyword in any
\* case, and holds a digit.
C15_SkipBlockIff ==
    pc = "skip_decided" =>
        (Truthy(skip_result) <=>
            /\ 10 * block.y_pos > 9 * block.page_height
            /\ block.length < 100
            /\ block.keyword = "none"
            /\ block.digit)

\* C15 witness: a short block at the foot of the page with a digit and an
\* upper-case chapter keyword is kept.
C15_Witness ==
    /\ pc = "skip_decided"
    /\ ~Truthy(skip_result)
    /\ block.y_pos = block.page_height
    /\ block.length < 100
    /\ block.keyword = "upper"
    /\ block.digit

\* ========================================================= footer stripper
\* _clean_text_of_footers and add_and_reprocess_footer of MainWindow (the
\* copy of _clean_text_of_footers in PDFHandler is the same code).
\*
\* A text is a sequence of characters over five classes: "Page" (the word,
\* in any case), " " (whitespace), "1" (a digit), "|" and "x" (any other
\* character).  A pattern is a sequence of atoms <<class, repetition>>,
\* anchored at the start of the string or not.

Alphabet == {"Page", " ", "1", "|", "x"}

\* re.compile(r'^Page\s+\d+', re.IGNORECASE)
SeedPageNumber ==
    [anchored |-> TRUE,
     atoms |-> << <<"Page", "one">>, <<" ", "plus">>, <<"1", "plus">> >>]

\* re.compile(r'^\d+\s*\|\s*P\s*a\s*g\s*e', re.IGNORECASE)
SeedNumberBarPage ==
    [anchored |-> TRUE,
     atoms |-> << <<"1", "plus">>, <<" ", "star">>, <<"|", "one">>,
                  <<" ", "star">>, <<"Page", "one">> >>]

SeedPatterns == <<SeedPageNumber, SeedNumberBarPage>>

\* re.compile(re.escape(footer_text), re.IGNORECASE)
LiteralPattern(footer_text) ==
    [anchored |-> FALSE,
     atoms |-> [k \in DOMAIN footer_text |-> <<footer_text[k], "one">>]]

\* Number of characters of class c that text holds in a row from pos on.
RECURSIVE RunOf(_, _, _)
RunOf(c, text, pos) ==
    IF pos > Len(text) \/ text[pos] # c THEN 0
    ELSE 1 + RunOf(c, text, pos + 1)

\* The position after the match of atoms that starts at pos, 0 when there
\* is none.  A repetition takes the whole run; no atom follows a repetition
\* of its own class, so the regex engine never gives characters back.
RECURSIVE MatchAtoms(_, _, _)
MatchAtoms(atoms, text, pos) ==
    IF atoms = <<>> THEN pos
    ELSE LET c == Head(atoms)[1]
             repetition == Head(atoms)[2]
             run == RunOf(c, text, pos)
         IN IF repetition = "one"
            THEN IF run >= 1 THEN MatchAtoms(Tail(atoms), text, pos + 1) ELSE 0
            ELSE IF repetition = "plus"
            THEN IF run >= 1 THEN MatchAtoms(Tail(atoms), text, pos + run) ELSE 0
            ELSE MatchAtoms(Tail(atoms), text, pos + run)

\* The match of pattern at pos: ^ holds at the first position only.
MatchEnd(pattern, text, pos) ==
    IF pattern.anchored /\ pos > 1 THEN 0
    ELSE MatchAtoms(pattern.atoms, text, pos)

\* Variant: a match is replaced by a blank.
SubFromLeavesBlank(pattern, text, pos) ==
    LET RECURSIVE Scan(_)
        Scan(q) ==
            IF q > Len(text) THEN <<>>
            ELSE IF MatchEnd(pattern, text, q) > q
                 THEN <<" ">> \o Scan(MatchEnd(pattern, text, q))
                 ELSE <<text[q]>> \o Scan(q + 1)
    IN Scan(pos)

\* pattern.sub('', text), scanning from pos: every match, left to right,
\* is left out.
RECURSIVE SubFrom(_, _, _)
SubFrom(pattern, text, pos) ==
    IF pos > Len(text) THEN <<>>
    ELSE IF MatchEnd(pattern, text, pos) > pos
         THEN SubFrom(pattern, text, MatchEnd(pattern, text, pos))
         ELSE <<text[pos]>> \o SubFrom(pattern, text, pos + 1)

\* "for pattern in self.footer_patterns: cleaned_text = pattern.sub(...)"
RECURSIVE SubPatterns(_, _)
SubPatterns(patterns, text) ==
    IF patterns = <<>> THEN text
    ELSE SubPatterns(Tail(patterns), SubFrom(Head(patterns), text, 1))

\* str.strip()
RECURSIVE Strip(_)
Strip(text) ==
    IF text = <<>> THEN text
    ELSE IF Head(text) = " " THEN Strip(Tail(text))
    ELSE IF Last(text) = " " THEN Strip(Front(text))
    ELSE text

clean_text_of_footers(patterns, text) == Strip(SubPatterns(patterns, text))

Texts == UNION {[1..n -> Alphabet] : n \in 0..MaxTextLen}

\* The footer texts the user may report.
FooterTexts == {<<"x">>, <<" ", "x">>, <<"1">>}

InitFooter ==
    /\ UiIdle
    /\ PipelineIdle
    /\ GroupImagesIdle
    /\ image_map = <<>>
    /\ ExtractIdle
    /\ ChaptersIdle
    /\ PdfIdle
    /\ TextIdle
    /\ pc = "pdf_closed"
    /\ footer_patterns = SeedPatterns
    /\ block_text \in Texts
    /\ cleaned = <<>>
    /\ recleaned = <<>>
    /\ processed_content = <<>>
    /\ before_add = NotAdded
    /\ reprocess_error = FALSE

\* open_file on a PDF: extraction, then _process_pdf_text(content).
OpenPdf ==
    /\ pc = "pdf_closed"
    /\ cleaned' = clean_text_of_footers(footer_patterns, block_text)
    /\ processed_content' = cleaned'
    /\ pc' = "pdf_loaded"
    /\ UNCHANGED <<uiVars, classifierVars, groupVars, imageVars, extractVars,
                   chapterVars, pdfVars, footer_patterns, block_text,
                   recleaned, before_add, reprocess_error, textVars>>

\* add_and_reprocess_footer(footer_text): the pattern is appended;
\* reprocess_current_file extracts the content again and then calls
\* self._process_text, a method MainWindow does not have: the AttributeError
\* is caught by its except clause, which shows the error box.  Nothing is
\* handed to _process_pdf_text.
AddAndReprocessFooter ==
    /\ pc = "pdf_loaded"
    /\ Len(footer_patterns) < Len(SeedPatterns) + MaxUserPatterns
    /\ \E footer_text \in FooterTexts :
          /\ footer_patterns' = Append(footer_patterns, LiteralPattern(footer_text))
          /\ before_add' = [added |-> TRUE, patterns |-> footer_patterns,
                            cleaned |-> cleaned,
                            processed |-> processed_content,
                            footer_text |-> footer_text]
    /\ cleaned' = clean_text_of_footers(footer_patterns', block_text)
    /\ reprocess_error' = TRUE
    /\ UNCHANGED <<uiVars, classifierVars, groupVars, imageVars, extractVars,
                   chapterVars, pdfVars, pc, block_text, recleaned,
                   processed_content, textVars>>

\* _clean_text_of_footers called on the text it returned.
CleanAgain ==
    /\ pc = "pdf_loaded"
    /\ recleaned' = clean_text_of_footers(footer_patterns, cleaned)
    /\ pc' = "cleaned_again"
    /\ UNCHANGED <<uiVars, classifierVars, groupVars, imageVars, extractVars,
                   chapterVars, pdfVars, footer_patterns, block_text, cleaned,
                   processed_content, before_add, reprocess_error, textVars>>

NextFooter == OpenPdf \/ AddAndReprocessFooter \/ CleanAgain

SpecFooter == InitFooter /\ [][NextFooter]_vars

\* C16: cleaning an already cleaned text with the same patterns changes
\* nothing.
C16_CleanIdempotent ==
    pc = "cleaned_again" => recleaned = cleaned

\* a is b with some characters left out.
RECURSIVE IsSubsequence(_, _)
IsSubsequence(a, b) ==
    IF a = <<>> THEN TRUE
    ELSE IF b = <<>> THEN FALSE
    ELSE IF Head(a) = Head(b) THEN IsSubsequence(Tail(a), Tail(b))
    ELSE IsSubsequence(a, Tail(b))

\* text without the characters at the positions of D.
WithoutPositions(text, D) ==
    LET keep == KeysInOrder(DOMAIN text \ D)
    IN [j \in DOMAIN keep |-> text[keep[j]]]

\* The positions of text where footer_text stands.
MatchStarts(footer_text, text) ==
    {k \in DOMAIN text :
        /\ k + Len(footer_text) - 1 <= Len(text)
        /\ SubSeq(text, k, k + Len(footer_text) - 1) = footer_text}

\* C17: after a pattern for footer_text was appended, the cleaned text is a
\* subsequence of the text cleaned with the old list, and it is the old
\* list's result (before its strip) without some non-overlapping
\* occurrences of footer_text, stripped: what went is in a match of the new
\* pattern or is whitespace at the ends.
C17_AppendOnlyDeletes ==
    before_add.added =>
        LET footer_text == before_add.footer_text
            u == SubPatterns(before_add.patterns, block_text)
        IN /\ before_add.cleaned = Strip(u)
           /\ IsSubsequence(cleaned, before_add.cleaned)
           /\ \E K \in SUBSET MatchStarts(footer_text, u) :
                 /\ \A j, k \in K : j < k => j + Len(footer_text) <= k
                 /\ cleaned = Strip(WithoutPositions(u,
                       {q \in DOMAIN u :
                           \E k \in K : k <= q /\ q < k + Len(footer_text)}))

\* C17 witness: the appended pattern matched, and the strip then took
\* whitespace the match had shielded.
C17_Witness ==
    /\ before_add.added
    /\ before_add.footer_text = <<"x">>
    /\ Len(before_add.cleaned) - Len(cleaned)
          > Cardinality({k \in DOMAIN before_add.cleaned :
                            before_add.cleaned[k] = "x"})
    /\ cleaned # <<>>

\* C18: after add_and_reprocess_footer the pattern list is the old list
\* followed by the literal pattern of the text, and the re-extraction and
\* re-segmentation went through: no error, and what is shown was built from
\* the content extracted with the new list.
C18_AddedPatternReprocessed ==
    before_add.added =>
        /\ footer_patterns
              = Append(before_add.patterns, LiteralPattern(before_add.footer_text))
        /\ ~reprocess_error
        /\ processed_content = clean_text_of_footers(footer_patterns, block_text)

\* ========================================================= text processors
\* MainWindow._process_pdf_text and _process_epub_text.
\*
\* A text is a sequence of characters over five classes: "w" (a character
\* of a word), "." (a full stop that ends a sentence), " " (a blank), "\n"
\* (a newline) and "K" (a chapter keyword, in any case).  "B" stands for the
\* text [PARA_BREAK] of the placeholder.

TextAlphabet == {"w", ".", " ", "\n", "K"}

IsSpace(c) == c \in {" ", "\n"}

\* Python's text[start:end], offsets counted from 0 and cut at the length.
Slice(text, start, end) ==
    LET cut(n) == IF n > Len(text) THEN Len(text) ELSE n
    IN SubSeq(text, cut(start) + 1, cut(end))

\* Number of whitespace characters text holds in a row from pos on.
RECURSIVE SpaceRun(_, _)
SpaceRun(text, pos) ==
    IF pos > Len(text) \/ ~IsSpace(text[pos]) THEN 0
    ELSE 1 + SpaceRun(text, pos + 1)

\* str.strip() on a text with blanks and newlines.
RECURSIVE StripSpace(_)
StripSpace(text) ==
    IF text = <<>> THEN text
    ELSE IF IsSpace(Head(text)) THEN StripSpace(Tail(text))
    ELSE IF IsSpace(Last(text)) THEN StripSpace(Front(text))
    ELSE text

\* text.replace(old, new)
RECURSIVE Replace(_, _, _)
Replace(text, old, new) ==
    IF Len(text) < Len(old) THEN text
    ELSE IF SubSeq(text, 1, Len(old)) = old
         THEN new \o Replace(SubSeq(text, Len(old) + 1, Len(text)), old, new)
         ELSE <<Head(text)>> \o Replace(Tail(text), old, new)

\* separator.join(parts)
RECURSIVE Join(_, _)
Join(parts, separator) ==
    IF parts = <<>> THEN <<>>
    ELSE IF Len(parts) = 1 THEN parts[1]
    ELSE parts[1] \o separator \o Join(Tail(parts), separator)

\* re.sub(r'([^\.\?!])\s*\n(?=(?:keywords))', r'\1.\n', raw_text), from
\* pos on: a character that ends no sentence, then whitespace up to a
\* newline that stands right before a keyword.
RECURSIVE EndLineBeforeKeyword(_, _)
EndLineBeforeKeyword(text, pos) ==
    IF pos > Len(text) THEN <<>>
    ELSE LET run == SpaceRun(text, pos + 1)
             newline == pos + run
         IN IF /\ text[pos] # "."
               /\ run >= 1
               /\ text[newline] = "\n"
               /\ newline + 1 <= Len(text)
               /\ text[newline + 1] = "K"
            THEN <<text[pos], ".", "\n">> \o EndLineBeforeKeyword(text, newline + 1)
            ELSE <<text[pos]>> \o EndLineBeforeKeyword(text, pos + 1)

\* para_break_placeholder = " [PARA_BREAK] "
para_break_placeholder == <<" ", "B", " ">>

\* re.sub(r'\n\s*(keyword(\s+\d+)?)', placeholder + r'\1', processed_text),
\* from pos on.
RECURSIVE BreakBeforeKeyword(_, _)
BreakBeforeKeyword(text, pos) ==
    IF pos > Len(text) THEN <<>>
    ELSE LET keyword == pos + SpaceRun(text, pos + 1) + 1
         IN IF /\ text[pos] = "\n"
               /\ keyword <= Len(text)
               /\ text[keyword] = "K"
            THEN para_break_placeholder \o <<"K">>
                    \o BreakBeforeKeyword(text, keyword + 1)
            ELSE <<text[pos]>> \o BreakBeforeKeyword(text, pos + 1)

\* Position of the last character of text that is no whitespace, 0 if none.
LastNonSpace(text) ==
    IF \A k \in DOMAIN text : IsSpace(text[k]) THEN 0
    ELSE CHOOSE k \in DOMAIN text :
            /\ ~IsSpace(text[k])
            /\ \A m \in DOMAIN text : m > k => IsSpace(text[m])

\* The sentence tokenizer's slices from the sentence that starts at offset
\* start (from 0) on, pos being the position under the scan: a sentence
\* ends after a full stop that whitespace and another token follow, the
\* next one starts at that token, the last one ends before the trailing
\* whitespace.
RECURSIVE SlicesFrom(_, _, _)
SlicesFrom(text, start, pos) ==
    IF pos >= LastNonSpace(text) THEN << <<start, LastNonSpace(text)>> >>
    ELSE IF text[pos] = "." /\ IsSpace(text[pos + 1])
         THEN LET next_tok == pos + SpaceRun(text, pos + 1) + 1
              IN << <<start, pos>> >> \o SlicesFrom(text, next_tok - 1, next_tok)
         ELSE SlicesFrom(text, start, pos + 1)

\* self.tokenizer.span_tokenize(text): the first sentence starts at offset
\* 0; a text of whitespace only has no sentence.
span_tokenize(text) ==
    IF LastNonSpace(text) = 0 THEN <<>> ELSE SlicesFrom(text, 0, 1)

\* The first pass of _process_pdf_text over raw_sentence_spans, from span i
\* (from 1) on: the paragraphs of unwrapped sentences.
RECURSIVE CleanedParagraphs(_, _, _, _)
CleanedParagraphs(processed_text, spans, i, current_paragraph_sentences) ==
    IF i > Len(spans) THEN <<>>
    ELSE LET end == spans[i][2]
             sentence_text == Slice(processed_text, spans[i][1], end)
             unwrapped_sentence ==
                StripSpace(Replace(sentence_text, <<"\n">>, <<" ">>))
             current == IF unwrapped_sentence # <<>>
                        THEN Append(current_paragraph_sentences, unwrapped_sentence)
                        ELSE current_paragraph_sentences
             is_last_sentence == i = Len(spans)
             next_char_is_newline ==
                end < Len(processed_text) /\ processed_text[end + 1] = "\n"
         IN IF (is_last_sentence \/ next_char_is_newline) /\ current # <<>>
            THEN <<Join(current, <<" ">>)>>
                    \o CleanedParagraphs(processed_text, spans, i + 1, <<>>)
            ELSE CleanedParagraphs(processed_text, spans, i + 1, current)

\* Lines 909-937: the text _process_pdf_text hands to the text area.
FinalText(text) ==
    LET ended == EndLineBeforeKeyword(text, 1)
        replaced == Replace(ended, <<"\n", "\n">>, para_break_placeholder)
        processed_text == BreakBeforeKeyword(replaced, 1)
        raw_sentence_spans == span_tokenize(processed_text)
        cleaned_paragraphs ==
            CleanedParagraphs(processed_text, raw_sentence_spans, 1, <<>>)
    IN Replace(Join(cleaned_paragraphs, <<"\n", "\n">>),
               StripSpace(para_break_placeholder), <<"\n", "\n">>)

\* text_area.setText(text): one block per line.
RECURSIVE SetText(_)
SetText(text) ==
    IF \A k \in DOMAIN text : text[k] # "\n" THEN <<text>>
    ELSE LET newline == CHOOSE k \in DOMAIN text :
                            /\ text[k] = "\n"
                            /\ \A m \in 1..(k - 1) : text[m] # "\n"
         IN <<SubSeq(text, 1, newline - 1)>>
               \o SetText(SubSeq(text, newline + 1, Len(text)))

\* text_area.toPlainText(): the blocks, a newline between two.
toPlainText(blocks) == Join(blocks, <<"\n">>)

\* Variant: the sentences are cut with the offsets where the text area's
\* text starts after its leading whitespace.
SentencesOfStripped(text, spans) ==
    [i \in DOMAIN spans |-> Slice(StripSpace(text), spans[i][1], spans[i][2])]

\* [full_text_for_analysis[start:end] for start, end in self.sentence_spans]
SentencesOf(text, spans) ==
    [i \in DOMAIN spans |-> Slice(text, spans[i][1], spans[i][2])]

\* "\n\n" in text
HasBlankLine(text) ==
    \E k \in DOMAIN text : k < Len(text) /\ text[k] = "\n" /\ text[k + 1] = "\n"

\* Variant: the paragraph in hand at the last sentence is not appended.
PdfParagraphsDropsLast(text, spans, i, current_paragraph_indices) ==
    LET RECURSIVE Loop(_, _)
        Loop(k, current) ==
            IF k >= Len(spans) - 1 THEN <<>>
            ELSE IF HasBlankLine(Slice(text, spans[k + 1][2], spans[k + 2][1]))
                 THEN <<Append(current, k)>> \o Loop(k + 1, <<>>)
                 ELSE Loop(k + 1, Append(current, k))
    IN Loop(i, current_paragraph_indices)

\* Lines 948-960: the paragraph map of the PDF/TXT builder from sentence i
\* (from 0) on.
RECURSIVE PdfParagraphs(_, _, _, _)
PdfParagraphs(text, spans, i, current_paragraph_indices) ==
    IF i >= Len(spans) THEN <<>>
    ELSE LET current == Append(current_paragraph_indices, i)
             is_last_sentence == i = Len(spans) - 1
             check_start == spans[i + 1][2]
             check_end == IF is_last_sentence THEN Len(text)
                          ELSE spans[i + 2][1]
             intervening_text == Slice(text, check_start, check_end)
         IN IF HasBlankLine(intervening_text) \/ is_last_sentence
            THEN <<current>> \o PdfParagraphs(text, spans, i + 1, <<>>)
            ELSE PdfParagraphs(text, spans, i + 1, current)

\* The inner while of lines 1013-1015: sentence_cursor after it.
RECURSIVE AdvanceCursor(_, _, _)
AdvanceCursor(spans, sentence_cursor, block_end_pos) ==
    IF sentence_cursor < Len(spans)
       /\ spans[sentence_cursor + 1][2] <= block_end_pos
    THEN AdvanceCursor(spans, sentence_cursor + 1, block_end_pos)
    ELSE sentence_cursor

\* Lines 1004-1021: the paragraph map of the EPUB builder from block k on,
\* position being block.position().
RECURSIVE EpubParagraphs(_, _, _, _, _)
EpubParagraphs(blocks, spans, k, position, sentence_cursor) ==
    IF k > Len(blocks) THEN <<>>
    ELSE LET block_end_pos == position + Len(blocks[k]) + 1 IN
         IF StripSpace(blocks[k]) = <<>>
         THEN EpubParagraphs(blocks, spans, k + 1, block_end_pos, sentence_cursor)
         ELSE LET last_sentence_in_block ==
                     AdvanceCursor(spans, sentence_cursor, block_end_pos)
                  para_indices ==
                     [j \in 1..(last_sentence_in_block - sentence_cursor) |->
                         sentence_cursor + j - 1]
              IN (IF para_indices # <<>> THEN <<para_indices>> ELSE <<>>)
                    \o EpubParagraphs(blocks, spans, k + 1, block_end_pos,
                                      last_sentence_in_block)

RawTexts == UNION {[1..n -> TextAlphabet] : n \in 0..MaxRawLen}

\* A PDF or TXT load hands its content to _process_pdf_text; an EPUB load
\* has put the HTML into the text area and hands the plain text, which may
\* be empty, to _process_epub_text.
InitText ==
    /\ UiIdle
    /\ PipelineIdle
    /\ GroupImagesIdle
    /\ image_map = <<>>
    /\ ExtractIdle
    /\ ChaptersIdle
    /\ PdfIdle
    /\ FooterIdle
    /\ pc = "process_text"
    /\ \/ /\ text_path = "pdf"
          /\ raw_text \in RawTexts
          /\ doc_blocks = EmptyDocument
       \/ /\ text_path = "epub"
          /\ \E html_text \in RawTexts :
                /\ doc_blocks = SetText(html_text)
                /\ raw_text \in {<<>>, html_text}
    /\ sentences = <<>>
    /\ sentence_spans = <<>>
    /\ paragraph_sentence_map = <<>>

ProcessPdfText ==
    /\ pc = "process_text"
    /\ text_path = "pdf"
    /\ IF raw_text = <<>>
       THEN /\ doc_blocks' = SetText(<<>>)
            /\ sentence_spans' = <<>>
            /\ sentences' = <<>>
            /\ paragraph_sentence_map' = <<>>
       ELSE /\ doc_blocks' = SetText(FinalText(raw_text))
            /\ LET full_text_for_analysis == toPlainText(doc_blocks') IN
                /\ sentence_spans' = span_tokenize(full_text_for_analysis)
                /\ sentences' = SentencesOf(full_text_for_analysis, sentence_spans')
                /\ paragraph_sentence_map' =
                      PdfParagraphs(full_text_for_analysis, sentence_spans', 0, <<>>)
    /\ pc' = "text_processed"
    /\ UNCHANGED <<uiVars, classifierVars, groupVars, imageVars, extractVars,
                   chapterVars, pdfVars, footerVars, text_path, raw_text>>

ProcessEpubText ==
    /\ pc = "process_text"
    /\ text_path = "epub"
    /\ IF raw_text = <<>>
       THEN /\ doc_blocks' = SetText(<<>>)
            /\ sentence_spans' = <<>>
            /\ sentences' = <<>>
            /\ paragraph_sentence_map' = <<>>
       ELSE /\ doc_blocks' = doc_blocks
            /\ LET full_text_for_analysis == toPlainText(doc_blocks) IN
                /\ sentence_spans' = span_tokenize(full_text_for_analysis)
                /\ sentences' = SentencesOf(full_text_for_analysis, sentence_spans')
                /\ paragraph_sentence_map' =
                      EpubParagraphs(doc_blocks, sentence_spans', 1, 0, 0)
    /\ pc' = "text_processed"
    /\ UNCHANGED <<uiVars, classifierVars, groupVars, imageVars, extractVars,
                   chapterVars, pdfVars, footerVars, text_path, raw_text>>

NextText == ProcessPdfText \/ ProcessEpubText

SpecText == InitText /\ [][NextText]_vars

\* The text the text area shows.
DisplayedText == toPlainText(doc_blocks)

\* C19: after a load, there are as many sentences as spans, every sentence
\* is the slice of the displayed text at its span, the offsets lie within
\* the text, the spans ascend by start and none overlaps the next.
C19_SpanRoundTrip ==
    pc = "text_processed" =>
        /\ Len(sentences) = Len(sentence_spans)
        /\ \A i \in DOMAIN sentence_spans :
              LET start == sentence_spans[i][1]
                  end == sentence_spans[i][2]
              IN /\ 0 <= start /\ start <= end /\ end <= Len(DisplayedText)
                 /\ SubSeq(DisplayedText, start + 1, end) = sentences[i]
        /\ \A i \in DOMAIN sentence_spans :
              i < Len(sentence_spans) =>
                 /\ sentence_spans[i][1] < sentence_spans[i + 1][1]
                 /\ sentence_spans[i][2] <= sentence_spans[i + 1][1]

\* C19 witness: a PDF load whose displayed text differs from the raw text
\* and holds two sentences.
C19_Witness ==
    /\ pc = "text_processed"
    /\ text_path = "pdf"
    /\ DisplayedText # raw_text
    /\ Len(sentence_spans) >= 2
    /\ sentences[2] # <<>>

\* The paragraph that holds sentence i (from 0).
ParagraphOf(i) ==
    CHOOSE k \in DOMAIN paragraph_sentence_map :
        i \in Range(paragraph_sentence_map[k])

\* C20: the paragraphs are non-empty and, one after the other, list the
\* sentence indices 0 .. N-1; in the PDF/TXT builder sentence i is the last
\* of its paragraph exactly when a blank line stands between it and the
\* next sentence or it is the last sentence.
C20_ParagraphsPartition ==
    pc = "text_processed" =>
        LET N == Len(sentences) IN
        /\ \A k \in DOMAIN paragraph_sentence_map : paragraph_sentence_map[k] # <<>>
        /\ Flatten(paragraph_sentence_map) = [j \in 1..N |-> j - 1]
        /\ text_path = "pdf" =>
              \A i \in 0..(N - 1) :
                 (Last(paragraph_sentence_map[ParagraphOf(i)]) = i)
                    <=> \/ i = N - 1
                        \/ /\ i < N - 1
                           /\ HasBlankLine(SubSeq(DisplayedText,
                                                  sentence_spans[i + 1][2] + 1,
                                                  sentence_spans[i + 2][1]))

\* C20 witness: an EPUB load where a block holds two sentences and a later
\* block another one.
C20_Witness ==
    /\ pc = "text_processed"
    /\ text_path = "epub"
    /\ Len(paragraph_sentence_map) >= 2
    /\ Len(paragraph_sentence_map[1]) >= 2

\* ---------------------------------------------------- the rollback loop

\* The classifier's lists as the rollback loop finds them.
Classified == ClassifyAll(impl, text_kind)

\* kept_files after the last k units of the discarded list were restored.
KeptAfter(k) ==
    LET D0 == Classified.discarded IN
    SubSeq(D0, Len(D0) - k + 1, Len(D0)) \o Classified.kept

\* The least k with essential <= kept, or len(discarded) when there is none.
RollbackDepth ==
    LET n == Len(Classified.discarded)
        Enough == {k \in 0..n : essential \subseteq Range(KeptAfter(k))}
    IN IF Enough = {} THEN n
       ELSE CHOOSE k \in Enough : \A j \in Enough : k <= j

\* C23: the loop runs at most len(discarded) times; after r iterations the
\* last r discarded units stand, most recently discarded first, in front of
\* kept_files and the others are still discarded; and it stops at the least
\* k that leaves no essential missing, or at len(discarded) if none does.
C23_RollbackRestoresLastK ==
    pc \in {"rollback", "done"} =>
        LET D0 == Classified.discarded IN
        /\ restored <= Len(D0)
        /\ restored <= RollbackDepth
        /\ discarded_files = SubSeq(D0, 1, Len(D0) - restored)
        /\ pc = "rollback" => kept_files = KeptAfter(restored)
        /\ pc = "done" =>
              /\ restored = RollbackDepth
              /\ kept_files = SortByIndex(KeptAfter(restored))
              /\ (essential \subseteq Range(Classified.kept)) => restored = 0

\* C23 witness: the loop stopped after two restorations with a discarded
\* unit left over.
C23_Witness ==
    /\ pc = "done"
    /\ restored = 2
    /\ discarded_files # <<>>
    /\ essential \subseteq Range(kept_files)

\* ------------------------------------------------ process_epub, one run
\* EpubHandler.process_epub from the table of contents to the four values
\* it returns.  The book has NumBookDocs spine documents; an empty-text
\* document holds img tags, each naming an image of the manifest.

BookDocs == 1..NumBookDocs

\* An img src the manifest resolves to an image.
ResolvableSrc == <<".", ".", "/", "a">>

\* The books: the text of each document, what its markup holds, and the
\* hrefs the table of contents names.
Books ==
    {b \in [kinds : [BookDocs -> Kinds],
            content : [BookDocs -> {<<"images", n>> : n \in 0..MaxImages}
                                      \cup {<<"body", 0>>}],
            essential : {E \in SUBSET (BookDocs \cup {Ghost}) :
                            Cardinality(E) <= MaxEssential}] :
        \A d \in BookDocs :
            (b.kinds[d] = "empty") <=> (b.content[d][1] = "images")}

\* The classifier loop over the documents of this book.
RECURSIVE ClassifyBookFrom(_, _, _, _)
ClassifyBookFrom(im, kinds, i, st) ==
    IF i > NumBookDocs THEN st
    ELSE ClassifyBookFrom(im, kinds, i + 1, ClassifyOne(im, kinds[i], i, st))

\* "while missing_essentials and discarded_files", to its end.
RECURSIVE RollbackAll(_, _)
RollbackAll(ess, st) ==
    IF RollbackGuard(ess, st.kept, st.discarded)
    THEN LET r == RestoreOne(st.kept, st.discarded) IN
         RollbackAll(ess, [kept |-> r.kept, discarded |-> r.discarded,
                           restored |-> st.restored + 1])
    ELSE st

\* html_content of a non-text document: its img tags.
HtmlContent(content, d) == [j \in 1..content[d][2] |-> ResolvableSrc]

InitEpub ==
    /\ UiIdle
    /\ impl = "EpubHandler"
    /\ \E b \in Books :
          /\ text_kind = b.kinds
          /\ unit_content = b.content
          /\ essential = b.essential
          /\ toc_data = TocDataOf(b.essential)
    /\ pc = "epub_toc"
    /\ kept_files = <<>>
    /\ discarded_files = <<>>
    /\ non_text = <<>>
    /\ documents_checked_count = 0
    /\ restored = 0
    /\ final_content_files = <<>>
    /\ final_chapter_groups = <<>>
    /\ chapter_groups = <<>>
    /\ image_map = <<>>
    /\ all_docs_in_order = <<>>
    /\ grouped = NoGrouped
    /\ ExtractIdle
    /\ html_body_parts = <<>>
    /\ plain_text_parts = <<>>
    /\ ui_toc = <<>>
    /\ PdfIdle
    /\ FooterIdle
    /\ TextIdle

\* One call of process_epub: _get_epub_chapter_groups, then
\* _extract_images_from_non_text_files, _group_images and
\* _process_epub_chapters, each on what the one before returned.
ProcessEpub ==
    /\ pc = "epub_toc"
    /\ LET st == ClassifyBookFrom(impl, text_kind, 1,
                    [kept |-> <<>>, discarded |-> <<>>, non_text |-> <<>>,
                     checked |-> 0])
           r == RollbackAll(essential,
                    [kept |-> st.kept, discarded |-> st.discarded,
                     restored |-> 0])
       IN
        /\ kept_files' = SortByIndex(r.kept)
        /\ discarded_files' = r.discarded
        /\ restored' = r.restored
        /\ non_text' = st.non_text
        /\ documents_checked_count' = st.checked
        /\ non_text_docs_map' =
              [d \in Range(st.non_text) |-> HtmlContent(unit_content, d)]
    /\ final_content_files' = FinalContent(impl, kept_files', essential)
    /\ final_chapter_groups' = GroupFiles(final_content_files', essential)
    /\ chapter_groups' = final_chapter_groups'
    /\ all_docs_in_order' = [i \in 1..NumBookDocs |-> i]
    /\ LET r == extract_images_from_non_text_files(non_text_docs_map') IN
        /\ image_map' = r.image_map
        /\ image_counter' = r.counter
    /\ grouped' = group_images(chapter_groups', image_map', all_docs_in_order')
    /\ LET out == process_epub_chapters(chapter_groups', toc_data, image_map',
                                        unit_content) IN
        /\ html_body_parts' = out.html
        /\ plain_text_parts' = out.text
        /\ ui_toc' = out.ui_toc
    /\ pc' = "epub_done"
    /\ UNCHANGED <<uiVars, impl, text_kind, essential, toc_data, unit_content,
                   pdfVars, footerVars, textVars>>

NextEpub == ProcessEpub

SpecEpub == InitEpub /\ [][NextEpub]_vars

\* The image ids of a list of (image_id, bytes) tuples.
IdsOf(images) == [k \in DOMAIN images |-> images[k][1]]

\* The ids of every bucket of grouped, one after the other.
GroupedIds ==
    IdsOf(grouped.cover) \o IdsOf(Flatten(grouped.chapters))
        \o IdsOf(grouped.ending)

\* Number of HTML parts the loop of _process_epub_chapters has emitted when
\* it is through the first g chapter groups.
HtmlPartsThrough(g) ==
    Len(process_epub_chapters(SubSeq(chapter_groups, 1, g), toc_data,
                              image_map, unit_content).html)

\* The chapter group (counted from 1) in whose iteration HTML part k was
\* emitted.
EmittingGroup(k) ==
    CHOOSE g \in DOMAIN chapter_groups :
        HtmlPartsThrough(g - 1) < k /\ k <= HtmlPartsThrough(g)

\* The ids carried by the placeholders of the output HTML, in order.
PlaceholderIds ==
    LET ph == SelectSeq(html_body_parts, IsPlaceholderHtml)
    IN [k \in DOMAIN ph |-> ph[k][2]]

\* C24: every image id of a placeholder of the output HTML occurs once in
\* the grouped images, in the chapters bucket of the group in whose content
\* the placeholder was emitted; every image of a chapters bucket has exactly
\* one placeholder.
C24_PlaceholderMatchesBucket ==
    pc = "epub_done" =>
        /\ Len(grouped.chapters) = Len(chapter_groups)
        /\ \A k \in DOMAIN html_body_parts :
              IsPlaceholderHtml(html_body_parts[k]) =>
                 LET id == html_body_parts[k][2] IN
                 /\ Occurrences(GroupedIds, id) = 1
                 /\ Occurrences(IdsOf(grouped.chapters[EmittingGroup(k)]), id) = 1
        /\ \A g \in DOMAIN grouped.chapters :
              \A j \in DOMAIN grouped.chapters[g] :
                 Occurrences(PlaceholderIds, grouped.chapters[g][j][1]) = 1

\* C24 witness: a run that sends an image to the cover and emits the
\* placeholders of two images in the content of the second chapter group.
C24_Witness ==
    /\ pc = "epub_done"
    /\ grouped.cover # <<>>
    /\ Len(chapter_groups) >= 2
    /\ Len(grouped.chapters[2]) >= 2
    /\ \E k \in DOMAIN html_body_parts :
          /\ IsPlaceholderHtml(html_body_parts[k])
          /\ EmittingGroup(k) = 2

\* C27: in every result of process_epub the ending bucket is empty, the last
\* unit of the last chapter group being the last kept unit and every
\* image-bearing unit a kept one.
C27_EndingBucketEmpty ==
    pc = "epub_done" =>
        /\ grouped.ending = <<>>
        /\ DOMAIN image_map \subseteq Range(kept_files)
        /\ chapter_groups # <<>> =>
              /\ Last(Last(chapter_groups)) = Last(kept_files)
              /\ \A d \in DOMAIN image_map : d <= Last(Last(chapter_groups))

\* C27 witness: the last document of the spine bears an image and the run
\* has chapter groups and an image in the cover.
C27_Witness ==
    /\ pc = "epub_done"
    /\ NumBookDocs \in DOMAIN image_map
    /\ chapter_groups # <<>>
    /\ grouped.cover # <<>>
    /\ discarded_files # <<>>

\* ------------------------------------------------------------ TTSHandler
\* src/tts_handler.py.  The handler lives in the main thread; its slots run
\* one at a time, each to its end.  The worker runs in self.thread, so its
\* finished and error signals are posted to the main thread and delivered
\* by its event loop; so is the status the player reports when the media
\* reaches its end.  A status the player reports from within player.stop()
\* calls the slot from within that call.

SpokenTexts == 1..NumTexts

\* What Worker.run emits: finished with audio, finished with empty audio,
\* error.
WorkerOutcomes == {"audio", "empty", "error"}

\* The status mediaStatusChanged carries out of player.stop(): none when the
\* player plays nothing, else the one of a stopped player or, prematurely,
\* EndOfMedia.
StopStatuses(player) ==
    IF player = 0 THEN {"none"} ELSE {"LoadedMedia", "EndOfMedia"}

\* Variant: every EndOfMedia status emits playback_finished.
on_media_status_changed_unguarded(status, playing) ==
    IF status = "EndOfMedia"
    THEN [is_playing |-> FALSE, emitted |-> 1]
    ELSE [is_playing |-> playing, emitted |-> 0]

\* _on_media_status_changed: the flag it leaves and the number of
\* playback_finished it emits.
on_media_status_changed(status, playing) ==
    IF status = "EndOfMedia" /\ playing
    THEN [is_playing |-> FALSE, emitted |-> 1]
    ELSE [is_playing |-> playing, emitted |-> 0]

\* Variant: the flag is lowered after the player was stopped.
StopPlayerFlagLast(status, playing) ==
    [on_media_status_changed(status, playing) EXCEPT !.is_playing = FALSE]

\* "self.is_playing = False ; self.player.stop()" of stop() and of
\* _play_audio_data, the player reporting status from within the call.
StopPlayer(status, playing) ==
    on_media_status_changed(status, FALSE)

\* "if self.thread.isRunning(): quit(); wait()": a worker still in run()
\* ends it and its signal is posted.
QuitAndWait(events, outcome) ==
    IF tts_thread = "synthesizing"
    THEN Append(events, <<outcome, worker_text>>)
    ELSE events

InitTts ==
    /\ WindowIdle
    /\ PipelineIdle
    /\ GroupImagesIdle
    /\ image_map = <<>>
    /\ ExtractIdle
    /\ ChaptersIdle
    /\ PdfIdle
    /\ FooterIdle
    /\ TextIdle
    /\ pc = "tts"
    /\ tts_credentials \in BOOLEAN
    /\ is_playing = FALSE
    /\ tts_thread = "not_running"
    /\ worker_text = 0
    /\ tts_events = <<>>
    /\ tts_player = 0
    /\ play_calls = 0
    /\ last_play_text = 0
    /\ stopped_since_play = FALSE
    /\ audios_started = 0
    /\ finished_emitted = 0
    /\ premature_end = FALSE
    /\ stop_emitted = FALSE

\* set_credentials(key, region)
SetCredentials ==
    /\ pc = "tts"
    /\ tts_credentials' \in BOOLEAN
    /\ tts_credentials' # tts_credentials
    /\ UNCHANGED <<classifierVars, groupVars, imageVars, handlerVars, windowVars, pc,
                   is_playing, tts_thread, worker_text, tts_events, tts_player,
                   play_calls, last_play_text, stopped_since_play,
                   audios_started, finished_emitted, premature_end,
                   stop_emitted>>

\* play(text) without credentials: error_occurred is emitted.
TtsPlayNoCredentials ==
    /\ pc = "tts"
    /\ ~tts_credentials
    /\ UNCHANGED vars

\* play(text)
TtsPlay ==
    /\ pc = "tts"
    /\ tts_credentials
    /\ play_calls < MaxPlays
    /\ \E text \in SpokenTexts, outcome \in WorkerOutcomes :
          /\ tts_events' = QuitAndWait(tts_events, outcome)
          /\ worker_text' = text
          /\ last_play_text' = text
    /\ tts_thread' = "synthesizing"
    /\ play_calls' = play_calls + 1
    /\ stopped_since_play' = FALSE
    /\ UNCHANGED <<classifierVars, groupVars, imageVars, handlerVars, windowVars, pc,
                   tts_credentials, is_playing, tts_player, audios_started,
                   finished_emitted, premature_end, stop_emitted>>

\* The body of stop(), the posted signals being events when it starts.
StopFrom(events) ==
    /\ \E status \in StopStatuses(tts_player), outcome \in WorkerOutcomes :
          LET r == StopPlayer(status, is_playing) IN
          /\ is_playing' = r.is_playing
          /\ finished_emitted' = finished_emitted + r.emitted
          /\ stop_emitted' = (stop_emitted \/ r.emitted = 1)
          /\ premature_end' = (premature_end \/ status = "EndOfMedia")
          /\ tts_events' = QuitAndWait(events, outcome)
    /\ tts_player' = 0
    /\ tts_thread' = "not_running"
    /\ stopped_since_play' = TRUE
    /\ UNCHANGED <<classifierVars, groupVars, imageVars, handlerVars, windowVars, pc,
                   tts_credentials, worker_text, play_calls, last_play_text,
                   audios_started>>

\* stop()
TtsStop ==
    /\ pc = "tts"
    /\ StopFrom(tts_events)

\* Worker.run comes to its end and emits finished or error.
WorkerReturns ==
    /\ pc = "tts"
    /\ tts_thread = "synthesizing"
    /\ \E outcome \in WorkerOutcomes :
          tts_events' = Append(tts_events, <<outcome, worker_text>>)
    /\ tts_thread' = "run_returned"
    /\ UNCHANGED <<classifierVars, groupVars, imageVars, handlerVars, windowVars, pc,
                   tts_credentials, is_playing, worker_text, tts_player,
                   play_calls, last_play_text, stopped_since_play,
                   audios_started, finished_emitted, premature_end,
                   stop_emitted>>

\* The media reaches its end: the player posts EndOfMedia.
MediaEnds ==
    /\ pc = "tts"
    /\ tts_player # 0
    /\ tts_events' = Append(tts_events, <<"EndOfMedia", tts_player>>)
    /\ tts_player' = 0
    /\ UNCHANGED <<classifierVars, groupVars, imageVars, handlerVars, windowVars, pc,
                   tts_credentials, is_playing, tts_thread, worker_text,
                   play_calls, last_play_text, stopped_since_play,
                   audios_started, finished_emitted, premature_end,
                   stop_emitted>>

\* _play_audio_data(audio_data) with audio.
PlayAudioData ==
    /\ pc = "tts"
    /\ tts_events # <<>>
    /\ Head(tts_events)[1] = "audio"
    /\ \E status \in StopStatuses(tts_player) :
          LET r == StopPlayer(status, is_playing) IN
          /\ finished_emitted' = finished_emitted + r.emitted
          /\ stop_emitted' = (stop_emitted \/ r.emitted = 1)
          /\ premature_end' = (premature_end \/ status = "EndOfMedia")
    /\ is_playing' = TRUE
    /\ tts_player' = Head(tts_events)[2]
    /\ audios_started' = audios_started + 1
    /\ tts_events' = Tail(tts_events)
    /\ UNCHANGED <<classifierVars, groupVars, imageVars, handlerVars, windowVars, pc,
                   tts_credentials, tts_thread, worker_text, play_calls,
                   last_play_text, stopped_since_play>>

\* _play_audio_data(audio_data) with no audio: playback_finished is emitted
\* for a text that was not played, and nothing else happens.
PlayEmptyAudio ==
    /\ pc = "tts"
    /\ tts_events # <<>>
    /\ Head(tts_events)[1] = "empty"
    /\ tts_events' = Tail(tts_events)
    /\ UNCHANGED <<classifierVars, groupVars, imageVars, handlerVars, windowVars, pc,
                   tts_credentials, is_playing, tts_thread, worker_text,
                   tts_player, play_calls, last_play_text, stopped_since_play,
                   audios_started, finished_emitted, premature_end,
                   stop_emitted>>

\* _on_tts_error(error_message)
OnTtsError ==
    /\ pc = "tts"
    /\ tts_events # <<>>
    /\ Head(tts_events)[1] = "error"
    /\ StopFrom(Tail(tts_events))

\* _on_media_status_changed(EndOfMedia), the status posted by MediaEnds.
OnMediaStatusChanged ==
    /\ pc = "tts"
    /\ tts_events # <<>>
    /\ Head(tts_events)[1] = "EndOfMedia"
    /\ LET r == on_media_status_changed("EndOfMedia", is_playing) IN
        /\ is_playing' = r.is_playing
        /\ finished_emitted' = finished_emitted + r.emitted
    /\ tts_events' = Tail(tts_events)
    /\ UNCHANGED <<classifierVars, groupVars, imageVars, handlerVars, windowVars, pc,
                   tts_credentials, tts_thread, worker_text, tts_player,
                   play_calls, last_play_text, stopped_since_play,
                   audios_started, premature_end, stop_emitted>>

NextTts ==
    \/ SetCredentials
    \/ TtsPlayNoCredentials
    \/ TtsPlay
    \/ TtsStop
    \/ WorkerReturns
    \/ MediaEnds
    \/ PlayAudioData
    \/ PlayEmptyAudio
    \/ OnTtsError
    \/ OnMediaStatusChanged

SpecTts == InitTts /\ [][NextTts]_vars

\* C26: playback_finished is emitted for EndOfMedia at most once per audio
\* started, an audio whose end is still to be reported counting as one, and
\* never for the EndOfMedia a player.stop() of stop() or of
\* _play_audio_data provokes.
C26_FinishedOncePerAudio ==
    pc = "tts" =>
        /\ ~stop_emitted
        /\ finished_emitted + (IF is_playing THEN 1 ELSE 0) <= audios_started

\* C26 witness: a player.stop() provoked EndOfMedia and playback_finished
\* was emitted for an audio that ended.
C26_Witness ==
    /\ pc = "tts"
    /\ premature_end
    /\ finished_emitted >= 1
    /\ audios_started >= 2

\* C30: while stop() has returned and play() was not called since, no audio
\* plays; and the audio that plays is the synthesis of the text of the
\* latest play() call.
C30_NoAudioAfterStop ==
    pc = "tts" =>
        /\ stopped_since_play => tts_player = 0
        /\ tts_player # 0 => tts_player = last_play_text

\* ------------------------------------------------------------ MainWindow
\* src/main_window.py: loading, navigation and playback.  The slots of the
\* window run in the main thread, one at a time; a slot that calls another
\* method runs it to its end.  The signals of a Worker and the status the
\* player reports at the end of the media are posted to the main thread.
\* An exception no handler catches leaves the slot where it is raised and
\* the window goes on.

\* A text of n sentences: the first is a paragraph, the others are a second
\* one.
RECURSIVE TextOf(_)
TextOf(n) ==
    IF n = 1 THEN <<"w", ".">>
    ELSE IF n = 2 THEN TextOf(1) \o <<"\n", "\n", "w", ".">>
    ELSE TextOf(n - 1) \o <<" ", "w", ".">>

\* The texts of the files: empty, blank, one sentence, and MaxSentences
\* sentences.
WindowTexts == {<<>>, <<" ">>, TextOf(1), TextOf(MaxSentences)}

\* The files the user may choose: a PDF whose TOC gives a first page, a
\* text file, an EPUB.
WindowFiles ==
    {[kind |-> "pdf", content |-> c, first_page |-> p] :
        c \in WindowTexts, p \in 0..MaxStartPage}
    \cup {[kind |-> k, content |-> c, first_page |-> 0] :
            k \in {"txt", "epub"}, c \in WindowTexts}

\* The text files and EPUBs.
TextFiles == {file \in WindowFiles : file.kind # "pdf"}

\* The files with no text or with the longest one.
PagedFiles ==
    {file \in WindowFiles : file.content \in {<<>>, TextOf(MaxSentences)}}

\* Where the try block of open_file raises: nowhere, while the file is
\* opened and read, or in _extract_text_from_pdf.
Failures(file) ==
    IF file.kind = "pdf" THEN {"none", "read", "extract"} ELSE {"none", "read"}

\* The status the player reports from within player.stop().
WindowStopStatuses(player) ==
    IF player = -1 THEN {"none"} ELSE {"LoadedMedia", "EndOfMedia"}

\* What the worker of self.thread emits if the slot makes it end: nothing
\* is chosen while no worker runs.
RunOutcomes == IF synth = -1 THEN {"audio"} ELSE WorkerOutcomes

\* The playback state of the window as a handler finds it, as one value;
\* uncaught names the handler an exception leaves.
Core ==
    [state |-> playback_state, index |-> current_sentence_index,
     synth |-> synth, orphans |-> orphans, events |-> window_events,
     player |-> window_player, played |-> played, play_start |-> play_start,
     quiet |-> quiet, uncaught |-> "none"]

SetCore(r) ==
  \E w \in {r} :
    /\ playback_state' = w.state
    /\ current_sentence_index' = w.index
    /\ synth' = w.synth
    /\ orphans' = w.orphans
    /\ window_events' = w.events
    /\ window_player' = w.player
    /\ played' = (IF w.quiet THEN w.played ELSE <<>>)
    /\ play_start' = (IF w.quiet THEN w.play_start ELSE 0)
    /\ quiet' = w.quiet
    /\ uncaught' = w.uncaught

\* stop_tts(): outcome is what a worker still in run() emits as
\* thread.wait() lets it end.  The status player.stop() provokes finds
\* playback_state STOPPED.
stop_tts(w, outcome) ==
    IF w.state = "STOPPED" THEN w
    ELSE [w EXCEPT !.state = "STOPPED",
                   !.player = -1,
                   !.events = IF w.synth # -1
                              THEN Append(@, <<outcome, w.synth>>) ELSE @,
                   !.synth = -1]

\* play_sentence(index): a new thread and worker replace self.thread and
\* self.worker; a worker still in run() goes on in its own thread.
play_sentence(w, index, outcome) ==
    IF w.state # "PLAYING" \/ index >= Len(sentences)
    THEN stop_tts(w, outcome)
    ELSE [w EXCEPT !.index = index,
                   !.synth = index,
                   !.orphans = IF w.synth # -1 THEN @ \cup {w.synth} ELSE @]

\* on_media_status_changed(EndOfMedia)
end_of_media(w, outcome) ==
    IF w.state = "PLAYING"
    THEN IF w.index + 1 < Len(sentences)
         THEN play_sentence(w, w.index + 1, outcome)
         ELSE stop_tts(w, outcome)
    ELSE w

\* play_audio_data(audio_data): kind says whether the audio is empty, index
\* which sentence it speaks, status what player.stop() reports.
play_audio_data(w, kind, index, status, outcome) ==
    IF kind = "empty" \/ w.state # "PLAYING"
    THEN end_of_media(w, outcome)
    ELSE LET stopped == IF status = "EndOfMedia"
                        THEN end_of_media([w EXCEPT !.player = -1], outcome)
                        ELSE w
         IN [stopped EXCEPT !.player = index,
                            !.played = IF w.quiet THEN Append(@, index) ELSE @]

\* play_tts(): self._process_text is no method of MainWindow, so the call
\* at line 295 raises AttributeError.
play_tts(w) ==
    IF w.state = "PLAYING" THEN w
    ELSE IF ~azure_set THEN w
    ELSE IF sentences = <<>> THEN [w EXCEPT !.uncaught = "play_tts"]
    ELSE play_sentence([w EXCEPT !.state = "PLAYING", !.played = <<>>,
                                 !.play_start = w.index, !.quiet = TRUE],
                       w.index, "audio")

\* "if self.playback_state == 'PLAYING': self.stop_tts()" at the head of a
\* navigation handler; a user action ends the quiet run.
Interrupted(outcome) == stop_tts([Core EXCEPT !.quiet = FALSE], outcome)

\* The first sentence whose span holds the position, or -1.
TargetSentence(position) ==
    LET hits == {i \in DOMAIN sentence_spans :
                    /\ sentence_spans[i][1] <= position
                    /\ position < sentence_spans[i][2]}
    IN IF hits = {} THEN -1
       ELSE (CHOOSE i \in hits : \A j \in hits : i <= j) - 1

\* The first paragraph that lists current_sentence_index, or -1.
CurrentParagraph(index) ==
    LET hits == {k \in DOMAIN paragraph_sentence_map :
                    index \in Range(paragraph_sentence_map[k])}
    IN IF hits = {} THEN -1
       ELSE (CHOOSE k \in hits : \A j \in hits : k <= j) - 1

\* Variant: next_sentence accepts the index one past the last sentence.
NextIndexAllowedInclusive(new_index) == new_index <= Len(sentences)

\* "if new_index < len(self.sentences)" of next_sentence.
NextIndexAllowed(new_index) == new_index < Len(sentences)

\* The variables the playback and navigation handlers leave alone.
windowFileVars == <<current_file_path, current_start_page, toc_destinations,
                   emergency_enabled, empty_loaded, tokenized_empty,
                   open_failed, before_open, error_boxes>>

otherVars == <<classifierVars, groupVars, imageVars, extractVars, chapterVars,
              pdfVars, footerVars, ttsVars, pc>>

\* A handler the user starts.  last_handler names previous_sentence found
\* at the first sentence, next_sentence found at the last one, and
\* load_previous_page with the start page it found.
Started(handler) ==
    /\ pc = "window"
    /\ Len(window_events) < MaxWindowEvents
    /\ last_handler' =
          (IF /\ handler = "previous_sentence"
              /\ sentences # <<>>
              /\ current_sentence_index = 0
           THEN "previous_at_first"
           ELSE IF /\ handler = "next_sentence"
                   /\ sentences # <<>>
                   /\ current_sentence_index = Len(sentences) - 1
           THEN "next_at_last"
           ELSE IF handler = "load_previous_page" THEN handler
           ELSE "other")
    /\ page_before' =
          (IF handler = "load_previous_page" THEN current_start_page
           ELSE NoPage)

InitWindow ==
    /\ PipelineIdle
    /\ GroupImagesIdle
    /\ image_map = <<>>
    /\ ExtractIdle
    /\ ChaptersIdle
    /\ PdfIdle
    /\ FooterIdle
    /\ TextIdle
    /\ TtsIdle
    /\ pc = "window"
    /\ azure_set \in BOOLEAN
    /\ WindowFresh

\* open_settings() / load_and_set_credentials(): the credentials change.
OpenSettings ==
    /\ Started("open_settings")
    /\ azure_set' \in BOOLEAN
    /\ azure_set' # azure_set
    /\ SetCore([Core EXCEPT !.quiet = FALSE])
    /\ UNCHANGED <<otherVars, textVars, windowFileVars>>

\* The Play button.
PlayTts ==
    /\ Started("play_tts")
    /\ SetCore(play_tts([Core EXCEPT !.quiet = FALSE]))
    /\ UNCHANGED <<otherVars, textVars, windowFileVars, azure_set>>

\* The Stop button.
StopTts ==
    /\ Started("stop_tts")
    /\ \E outcome \in RunOutcomes : SetCore(Interrupted(outcome))
    /\ UNCHANGED <<otherVars, textVars, windowFileVars, azure_set>>

\* on_text_area_clicked(position)
OnTextAreaClicked ==
    /\ Started("on_text_area_clicked")
    /\ \E position \in 0..Len(toPlainText(doc_blocks)),
          outcome \in RunOutcomes :
          IF sentence_spans = <<>>
          THEN SetCore([Core EXCEPT !.quiet = FALSE])
          ELSE LET w == Interrupted(outcome)
                   target_sentence_index == TargetSentence(position)
               IN IF target_sentence_index # -1
                  THEN SetCore(play_tts([w EXCEPT !.index = target_sentence_index]))
                  ELSE SetCore(w)
    /\ UNCHANGED <<otherVars, textVars, windowFileVars, azure_set>>

\* previous_sentence()
PreviousSentence ==
    /\ Started("previous_sentence")
    /\ \E outcome \in RunOutcomes :
          IF sentences = <<>>
          THEN SetCore([Core EXCEPT !.quiet = FALSE])
          ELSE LET w == Interrupted(outcome)
                   new_index == current_sentence_index - 1
               IN IF new_index >= 0
                  THEN SetCore(play_tts([w EXCEPT !.index = new_index]))
                  ELSE SetCore(w)
    /\ UNCHANGED <<otherVars, textVars, windowFileVars, azure_set>>

\* next_sentence()
NextSentence ==
    /\ Started("next_sentence")
    /\ \E outcome \in RunOutcomes :
          IF sentences = <<>>
          THEN SetCore([Core EXCEPT !.quiet = FALSE])
          ELSE LET w == Interrupted(outcome)
                   new_index == current_sentence_index + 1
               IN IF NextIndexAllowed(new_index)
                  THEN SetCore(play_tts([w EXCEPT !.index = new_index]))
                  ELSE SetCore(w)
    /\ UNCHANGED <<otherVars, textVars, windowFileVars, azure_set>>

\* previous_paragraph()
PreviousParagraph ==
    /\ Started("previous_paragraph")
    /\ \E outcome \in RunOutcomes :
          IF paragraph_sentence_map = <<>>
          THEN SetCore([Core EXCEPT !.quiet = FALSE])
          ELSE LET w == Interrupted(outcome)
                   current_para_index == CurrentParagraph(current_sentence_index)
               IN IF current_para_index > 0
                  THEN SetCore(play_tts([w EXCEPT !.index =
                          paragraph_sentence_map[current_para_index][1]]))
                  ELSE SetCore(w)
    /\ UNCHANGED <<otherVars, textVars, windowFileVars, azure_set>>

\* next_paragraph()
NextParagraph ==
    /\ Started("next_paragraph")
    /\ \E outcome \in RunOutcomes :
          IF paragraph_sentence_map = <<>>
          THEN SetCore([Core EXCEPT !.quiet = FALSE])
          ELSE LET w == Interrupted(outcome)
                   current_para_index == CurrentParagraph(current_sentence_index)
               IN IF /\ current_para_index # -1
                     /\ current_para_index < Len(paragraph_sentence_map) - 1
                  THEN SetCore(play_tts([w EXCEPT !.index =
                          paragraph_sentence_map[current_para_index + 2][1]]))
                  ELSE SetCore(w)
    /\ UNCHANGED <<otherVars, textVars, windowFileVars, azure_set>>

\* Worker.run of self.worker or of the worker of a replaced thread ends.
WindowWorkerReturns ==
    /\ pc = "window"
    /\ Len(window_events) < MaxWindowEvents
    /\ \E i \in ({synth} \ {-1}) \cup orphans, outcome \in WorkerOutcomes :
          /\ window_events' = Append(window_events, <<outcome, i>>)
          /\ IF i = synth
             THEN synth' = -1 /\ orphans' = orphans
             ELSE synth' = synth /\ orphans' = orphans \ {i}
    /\ UNCHANGED <<otherVars, textVars, windowFileVars, azure_set,
                   playback_state, current_sentence_index, window_player,
                   played, play_start, quiet, uncaught, last_handler,
                   page_before>>

\* The media reaches its end: the player posts EndOfMedia.
WindowMediaEnds ==
    /\ pc = "window"
    /\ Len(window_events) < MaxWindowEvents
    /\ window_player # -1
    /\ window_events' = Append(window_events, <<"EndOfMedia", window_player>>)
    /\ window_player' = -1
    /\ UNCHANGED <<otherVars, textVars, windowFileVars, azure_set,
                   playback_state, current_sentence_index, synth, orphans,
                   played, play_start, quiet, uncaught, last_handler,
                   page_before>>

\* A posted signal is delivered: its name and what the slot found.
Delivered(kinds) ==
    /\ pc = "window"
    /\ window_events # <<>>
    /\ Head(window_events)[1] \in kinds
    /\ last_handler' = "other"
    /\ page_before' = NoPage

\* play_audio_data(audio_data), the slot of Worker.finished.
PlayWindowAudio ==
    /\ Delivered({"audio", "empty"})
    /\ \E status \in WindowStopStatuses(window_player),
          outcome \in RunOutcomes :
          LET event == Head(window_events) IN
          SetCore(play_audio_data(
                    [Core EXCEPT !.events = Tail(@),
                                 !.quiet = IF event[1] = "empty" THEN FALSE
                                           ELSE @],
                    event[1], event[2], status, outcome))
    /\ UNCHANGED <<otherVars, textVars, windowFileVars, azure_set>>

\* on_tts_error(error_message), the slot of Worker.error.
OnWindowTtsError ==
    /\ Delivered({"error"})
    /\ \E outcome \in RunOutcomes :
          SetCore(stop_tts([Core EXCEPT !.events = Tail(@), !.quiet = FALSE],
                           outcome))
    /\ UNCHANGED <<otherVars, textVars, windowFileVars, azure_set>>

\* on_media_status_changed(EndOfMedia), the slot of the player.
OnWindowMediaStatus ==
    /\ Delivered({"EndOfMedia"})
    /\ \E outcome \in RunOutcomes :
          SetCore(end_of_media([Core EXCEPT !.events = Tail(@)], outcome))
    /\ UNCHANGED <<otherVars, textVars, windowFileVars, azure_set>>

\* What open_file finds when it starts.
Snapshot ==
    [text |-> doc_blocks, sentences |-> sentences,
     sentence_spans |-> sentence_spans,
     paragraph_sentence_map |-> paragraph_sentence_map,
     current_file_path |-> current_file_path,
     current_start_page |-> current_start_page,
     toc_destinations |-> toc_destinations]

\* _process_pdf_text(raw) and _process_epub_text(raw, update_display=False):
\* the text area, the three arrays, and whether span_tokenize saw "".
ProcessedText(kind, raw, shown) ==
    LET blocks == IF raw = <<>> THEN SetText(<<>>)
                  ELSE IF kind = "epub" THEN shown
                  ELSE SetText(FinalText(raw))
        full_text_for_analysis == toPlainText(blocks)
        spans == IF raw = <<>> THEN <<>> ELSE span_tokenize(full_text_for_analysis)
    IN [blocks |-> blocks,
        sentence_spans |-> spans,
        sentences |-> SentencesOf(full_text_for_analysis, spans),
        paragraph_sentence_map |->
            IF spans = <<>> THEN <<>>
            ELSE IF kind = "epub" THEN EpubParagraphs(blocks, spans, 1, 0, 0)
            ELSE PdfParagraphs(full_text_for_analysis, spans, 0, <<>>),
        tokenized_empty |-> raw # <<>> /\ full_text_for_analysis = <<>>]

\* What the text processor makes of each file.
Processed ==
    [file \in WindowFiles |->
        ProcessedText(file.kind, file.content, SetText(file.content))]

\* The try block of open_file for the file chosen, raising where failure
\* says.
OpenFileAs(file, failure, outcome) ==
    LET w == Interrupted(outcome)
        parsed == file.kind = "pdf" /\ failure # "read"
        t == Processed[file]
    IN
    /\ before_open' = (IF failure # "none" THEN Snapshot ELSE NotOpened)
    /\ current_file_path' = file
    /\ open_failed' = (failure # "none")
    /\ error_boxes' = (IF failure # "none" THEN 1 ELSE 0)
    /\ toc_destinations' = (IF parsed THEN file ELSE toc_destinations)
    /\ current_start_page' =
          (IF parsed THEN file.first_page
           ELSE IF file.kind = "txt" /\ failure = "none" THEN 0
           ELSE current_start_page)
    /\ IF failure # "none"
       THEN /\ SetCore(w)
            /\ UNCHANGED <<textVars, emergency_enabled, empty_loaded,
                           tokenized_empty>>
       ELSE /\ SetCore([w EXCEPT !.index = IF t.sentences = <<>> THEN @
                                           ELSE 0])
            /\ text_path' = (IF file.kind = "epub" THEN "epub" ELSE "pdf")
            /\ raw_text' = file.content
            /\ doc_blocks' = t.blocks
            /\ sentence_spans' = t.sentence_spans
            /\ sentences' = t.sentences
            /\ paragraph_sentence_map' = t.paragraph_sentence_map
            /\ emergency_enabled' =
                  (IF file.kind = "pdf" THEN TRUE
                   ELSE IF file.kind = "epub" THEN FALSE
                   ELSE emergency_enabled)
            /\ empty_loaded' = (t.sentences = <<>>)
            /\ tokenized_empty' = t.tokenized_empty
    /\ UNCHANGED <<otherVars, azure_set>>

\* open_file() with a file chosen in the dialog.
OpenFile ==
    /\ Started("open_file")
    /\ \E file \in PagedFiles, outcome \in RunOutcomes :
       \E failure \in Failures(file) : OpenFileAs(file, failure, outcome)

\* open_file() with a text file or an EPUB that is read and processed to
\* the end.
OpenReadableFile ==
    /\ Started("open_file")
    /\ \E file \in TextFiles, outcome \in RunOutcomes :
          OpenFileAs(file, "none", outcome)

\* open_file() with the dialog cancelled.
OpenFileCancelled ==
    /\ Started("open_file_cancelled")
    /\ \E outcome \in RunOutcomes : SetCore(Interrupted(outcome))
    /\ UNCHANGED <<otherVars, textVars, windowFileVars, azure_set>>

\* load_previous_page(), reached from the emergency menu: with a file and a
\* start page above 0 it runs into self._process_text, no method of
\* MainWindow; with a file and current_start_page None the comparison
\* "None <= 0" raises.
LoadPreviousPage ==
    /\ Started("load_previous_page")
    /\ emergency_enabled
    /\ LET w == [Core EXCEPT !.quiet = FALSE] IN
       IF current_file_path = NoFile THEN SetCore(w)
       ELSE IF current_start_page = NoPage
       THEN SetCore([w EXCEPT !.uncaught = "load_previous_page"])
       ELSE IF current_start_page <= 0 THEN SetCore(w)
       ELSE SetCore([w EXCEPT !.uncaught = "load_previous_page"])
    /\ UNCHANGED <<otherVars, textVars, windowFileVars, azure_set>>

\* Loading, navigation and playback.  A PDF is processed by the same
\* _process_pdf_text as a text file, and a load that fails touches the
\* playback state as a cancelled one does.
NextWindow ==
    \/ OpenSettings
    \/ PlayTts
    \/ StopTts
    \/ OnTextAreaClicked
    \/ PreviousSentence
    \/ NextSentence
    \/ PreviousParagraph
    \/ NextParagraph
    \/ WindowWorkerReturns
    \/ WindowMediaEnds
    \/ PlayWindowAudio
    \/ OnWindowTtsError
    \/ OnWindowMediaStatus
    \/ OpenReadableFile
    \/ OpenFileCancelled

SpecWindow == InitWindow /\ [][NextWindow]_vars

\* Loading and the start page, the playback at rest.
NextFiles ==
    \/ OpenFile
    \/ OpenFileCancelled
    \/ LoadPreviousPage

SpecFiles == InitWindow /\ [][NextFiles]_vars

\* The sentence indices from i to the last one.
IndicesFrom(i) == [k \in 1..(Len(sentences) - i) |-> i + k - 1]

IsPrefix(s, t) == Len(s) <= Len(t) /\ s = SubSeq(t, 1, Len(s))


\* ------------------------------------------------- claims on MainWindow

\* C21: after a load whose text is empty or yields no sentence, the
\* tokenizer was not called on the empty string, sentences, sentence_spans
\* and paragraph_sentence_map are empty, playback is not started, and no
\* handler of a user action raises.
C21_EmptyTextIsSafe ==
    pc = "window" /\ empty_loaded =>
        /\ ~tokenized_empty
        /\ sentences = <<>>
        /\ sentence_spans = <<>>
        /\ paragraph_sentence_map = <<>>
        /\ playback_state = "STOPPED"
        /\ uncaught = "none"

\* C22: after an open_file whose try block raised, one error box was shown
\* and the displayed text, the three arrays, current_file_path,
\* current_start_page and toc_destinations are what the call found.
C22_FailedOpenInstallsNothing ==
    pc = "window" /\ open_failed =>
        /\ error_boxes = 1
        /\ Snapshot = before_open

\* C25: current_start_page is never below 0, and load_previous_page with a
\* PDF loaded and a start page p > 0 leaves p - 1 without raising, with
\* p = 0 or no file it changes nothing.
C25_PreviousPageLowersByOne ==
    pc = "window" =>
        /\ current_start_page = NoPage \/ current_start_page >= 0
        /\ last_handler = "load_previous_page" =>
              IF /\ current_file_path.kind = "pdf"
                 /\ ~open_failed
                 /\ page_before > 0
              THEN current_start_page = page_before - 1 /\ uncaught = "none"
              ELSE current_file_path = NoFile \/ page_before = 0 =>
                      current_start_page = page_before /\ uncaught = "none"

\* C28: whenever sentences is non-empty, current_sentence_index is an index
\* of it; previous_sentence at the first sentence and next_sentence at the
\* last one leave the index where it was.
C28_IndexInRange ==
    pc = "window" =>
        /\ sentences # <<>> =>
              /\ 0 <= current_sentence_index
              /\ current_sentence_index < Len(sentences)
        /\ synth # -1 => synth < Len(sentences)
        /\ last_handler = "previous_at_first" => current_sentence_index = 0
        /\ last_handler = "next_at_last" =>
              current_sentence_index = Len(sentences) - 1

\* C28 witness: next_sentence ran at the last of several sentences, the
\* index having moved there from 0.
C28_Witness ==
    /\ pc = "window"
    /\ last_handler = "next_at_last"
    /\ Len(sentences) >= 2
    /\ current_sentence_index = Len(sentences) - 1
    /\ playback_state = "STOPPED"

\* C29: while no user action follows the play_tts that started playback at
\* sentence play_start and every synthesis gives audio, the sentences played
\* are play_start, play_start + 1, ... in that order, each once, and all of
\* them to the last when the state is STOPPED again.
C29_PlaysEachOnceInOrder ==
    pc = "window" /\ quiet =>
        /\ IsPrefix(played, IndicesFrom(play_start))
        /\ playback_state = "STOPPED" => played = IndicesFrom(play_start)

====
